---- MODULE Spec2Model ----
(***************************************************************************)
(* Todos REST service: TodosController behind its CacheInterceptor, the    *)
(* TodosService pass-through and the three ITodoRepository implementations *)
(* (Prisma, Drizzle, Mongoose) selected by DATABASE_PROVIDER.              *)
(*                                                                         *)
(* Text values (title, description, tag, priority, ...) are sequences of   *)
(* symbols, so that String.trim and String.split are computed on them.     *)
(* One process per element of `running`; all processes receive the same    *)
(* requests and read the same clock.  Spec runs one process (one provider  *)
(* chosen at start-up), SpecEq runs one process per provider side by side. *)
(***************************************************************************)
EXTENDS Integers, Sequences, FiniteSets, TLC

VARIABLES running, db, cache, last, stale, deleted, script, clock, nextId, boot, tracker, reply, admission, tagsCall, captured, patches, gate

\* The state of the components observed aside from the todo store.
aside == <<reply, admission, tagsCall, captured, patches, gate>>

vars == <<running, db, cache, last, stale, deleted, script, clock, nextId, boot, tracker, aside>>

(* ----------------------------- bounds ---------------------------------- *)

MaxTodos == 2

MaxClock == 1

MaxCached == 1

\* Variables of the environment that differ from the reference environment.
MaxEnvEdits == 2

\* Characters in the tags parameter of GET /todos/by-tags.
MaxTagsLen == 4

(* ----------------------------- values ---------------------------------- *)

PRISMA_POSTGRESQL == "prisma-postgresql"

DRIZZLE_POSTGRESQL == "drizzle-postgresql"

MONGOOSE_MONGODB == "mongoose-mongodb"

DatabaseProvider == {PRISMA_POSTGRESQL, DRIZZLE_POSTGRESQL, MONGOOSE_MONGODB}

Null == <<"null">>

Undef == <<"undefined">>

Absent(v) == v = Null \/ v = Undef

Medium == <<"medium">>

High == <<"high">>

Low == <<"low">>

Field(data, f, dflt) == IF f \in DOMAIN data THEN data[f] ELSE dflt

IsSpace(c) == c = " "

RECURSIVE TrimStart(_)
TrimStart(s) ==
  IF s # <<>> /\ IsSpace(Head(s)) THEN TrimStart(Tail(s)) ELSE s

RECURSIVE TrimEnd(_)
TrimEnd(s) ==
  IF s # <<>> /\ IsSpace(s[Len(s)]) THEN TrimEnd(SubSeq(s, 1, Len(s) - 1)) ELSE s

\* A trim that removes leading white space only.
Trim_StartOnly(s) == TrimStart(s)

Trim(s) == TrimEnd(TrimStart(s))

RECURSIVE SplitFrom(_, _, _)
SplitFrom(s, sep, cur) ==
  IF s = <<>> THEN <<cur>>
  ELSE IF Head(s) = sep THEN <<cur>> \o SplitFrom(Tail(s), sep, <<>>)
  ELSE SplitFrom(Tail(s), sep, Append(cur, Head(s)))

Split(s, sep) == SplitFrom(s, sep, <<>>)

Includes(seq, v) == \E i \in 1..Len(seq) : seq[i] = v

Some(seq, P(_)) == \E i \in 1..Len(seq) : P(seq[i])

Map(seq, F(_)) == [i \in 1..Len(seq) |-> F(seq[i])]

Permutations_(S) ==
  {s \in [1..Cardinality(S) -> S] : \A i, j \in 1..Cardinality(S) : i # j => s[i] # s[j]}

(* ------------------------- results and errors -------------------------- *)

Value(v) == [kind |-> "value", value |-> v]

List(v) == [kind |-> "list", value |-> v]

ReturnsNull == [kind |-> "null"]

ReturnsUndefined == [kind |-> "undefined"]

Throws(e) == [kind |-> "throw", error |-> e]

NotCalled == [kind |-> "not-called"]

PrismaRecordNotFound ==
  [name |-> "PrismaClientKnownRequestError", code |-> "P2025", isHttp |-> FALSE, status |-> 0]

PlainNotFoundError ==
  [name |-> "Error", code |-> "not found", isHttp |-> FALSE, status |-> 0]

ApiError_todoNotFound ==
  [name |-> "ApiError", code |-> "TODO_NOT_FOUND", isHttp |-> TRUE, status |-> 404]

(* ------------------ PostgreSQL table "todos" (Prisma, Drizzle) ---------- *)

\* PgInsertRow with a priority column that has no DEFAULT.
PgInsertRow_NoPriorityDefault(values) ==
  [id          |-> values.id,
   title       |-> values.title,
   description |-> Field(values, "description", Null),
   completed   |-> Field(values, "completed", FALSE),
   priority    |-> Field(values, "priority", Null),
   dueDate     |-> Field(values, "dueDate", Null),
   tags        |-> Field(values, "tags", <<>>),
   metadata    |-> Field(values, "metadata", Null),
   createdAt   |-> values.createdAt,
   updatedAt   |-> values.updatedAt]

\* The row INSERT stores: columns the statement leaves out take the column
\* DEFAULT, nullable columns without one become NULL.
PgInsertRow(values) ==
  [id          |-> values.id,
   title       |-> values.title,
   description |-> Field(values, "description", Null),
   completed   |-> Field(values, "completed", FALSE),
   priority    |-> Field(values, "priority", Medium),
   dueDate     |-> Field(values, "dueDate", Null),
   tags        |-> Field(values, "tags", <<>>),
   metadata    |-> Field(values, "metadata", Null),
   createdAt   |-> values.createdAt,
   updatedAt   |-> values.updatedAt]

\* UPDATE ... SET and $set: the fields of the record named in `set` take the
\* new value; the others keep theirs.
SetFields(row, set) ==
  [f \in DOMAIN row |-> IF f \in DOMAIN set THEN set[f] ELSE row[f]]

WithField(data, f, v) ==
  [g \in DOMAIN data \cup {f} |-> IF g = f THEN v ELSE data[g]]

WhereId(rows, id) == {r \in rows : r.id = id}

OrderByAsc(rows) ==
  {s \in Permutations_(rows) :
     \A i \in 1..(Len(s) - 1) : s[i].createdAt <= s[i + 1].createdAt}

OrderByDesc(rows) ==
  {s \in Permutations_(rows) :
     \A i \in 1..(Len(s) - 1) : s[i].createdAt >= s[i + 1].createdAt}

(* --------------------------- PrismaTodoRepository ----------------------- *)

Prisma_create(rows, data, id, now) ==
  LET created == PgInsertRow(
        WithField(WithField(WithField(WithField(data,
          "tags", Field(data, "tags", <<>>)),
          "id", id), "createdAt", now), "updatedAt", now))
  IN [rows |-> rows \cup {created}, res |-> Value(created)]

Prisma_findAll(rows) == {List(s) : s \in OrderByDesc(rows)}

Prisma_findById(rows, id) ==
  IF WhereId(rows, id) = {} THEN ReturnsNull
  ELSE Value(CHOOSE r \in WhereId(rows, id) : TRUE)

\* Prisma_update that also stamps createdAt.
Prisma_update_StampsCreatedAt(rows, id, data, now) ==
  IF {r \in rows : r.id = id} = {} THEN [rows |-> rows, res |-> Throws(PrismaRecordNotFound)]
  ELSE LET old == CHOOSE r \in rows : r.id = id
           updated == [f \in DOMAIN old |->
                         IF f \in {"createdAt", "updatedAt"} THEN now
                         ELSE IF f \in DOMAIN data THEN data[f] ELSE old[f]]
       IN [rows |-> (rows \ {old}) \cup {updated}, res |-> Value(updated)]

Prisma_update(rows, id, data, now) ==
  IF WhereId(rows, id) = {} THEN [rows |-> rows, res |-> Throws(PrismaRecordNotFound)]
  ELSE LET old == CHOOSE r \in WhereId(rows, id) : TRUE
           updated == SetFields(old, WithField(data, "updatedAt", now))
       IN [rows |-> (rows \ {old}) \cup {updated}, res |-> Value(updated)]

Prisma_delete(rows, id) ==
  IF WhereId(rows, id) = {} THEN [rows |-> rows, res |-> Throws(PrismaRecordNotFound)]
  ELSE LET old == CHOOSE r \in WhereId(rows, id) : TRUE
       IN [rows |-> rows \ {old}, res |-> Value(old)]

Prisma_findByCompleted(rows, completed) ==
  {List(s) : s \in OrderByDesc({r \in rows : r.completed = completed})}

Prisma_findByTags(rows, tags) ==
  {List(s) : s \in OrderByDesc({r \in rows : \E i \in 1..Len(tags) : Includes(r.tags, tags[i])})}

(* --------------------------- DrizzleTodoRepository ---------------------- *)

Drizzle_create(rows, data, id, now) ==
  LET newTodo ==
        WithField(WithField(WithField(WithField(WithField(data,
          "id", Field(data, "id", id)),
          "tags", Field(data, "tags", <<>>)),
          "completed", Field(data, "completed", FALSE)),
          "createdAt", now), "updatedAt", now)
      created == PgInsertRow(newTodo)
  IN [rows |-> rows \cup {created}, res |-> Value(created)]

Drizzle_orderBy(rows) == OrderByAsc(rows)

Drizzle_findAll(rows) == {List(s) : s \in Drizzle_orderBy(rows)}

\* Drizzle_findById without the `|| null` fallback.
Drizzle_findById_NoFallback(rows, id) ==
  IF {r \in rows : r.id = id} = {} THEN ReturnsUndefined
  ELSE Value(CHOOSE r \in rows : r.id = id)

Drizzle_findById(rows, id) ==
  IF WhereId(rows, id) = {} THEN ReturnsNull
  ELSE Value(CHOOSE r \in WhereId(rows, id) : TRUE)

\* Drizzle_update that sets only the fields of the patch.
Drizzle_update_NoUpdatedAt(rows, id, data, now) ==
  IF {r \in rows : r.id = id} = {} THEN [rows |-> rows, res |-> ReturnsUndefined]
  ELSE LET old == CHOOSE r \in rows : r.id = id
           updated == [f \in DOMAIN old |-> IF f \in DOMAIN data THEN data[f] ELSE old[f]]
       IN [rows |-> (rows \ {old}) \cup {updated}, res |-> Value(updated)]

Drizzle_update(rows, id, data, now) ==
  IF WhereId(rows, id) = {} THEN [rows |-> rows, res |-> ReturnsUndefined]
  ELSE LET old == CHOOSE r \in WhereId(rows, id) : TRUE
           updated == SetFields(old, WithField(data, "updatedAt", now))
       IN [rows |-> (rows \ {old}) \cup {updated}, res |-> Value(updated)]

Drizzle_delete(rows, id) ==
  IF WhereId(rows, id) = {} THEN [rows |-> rows, res |-> ReturnsUndefined]
  ELSE LET old == CHOOSE r \in WhereId(rows, id) : TRUE
       IN [rows |-> rows \ {old}, res |-> Value(old)]

Drizzle_findByCompleted(rows, completed) ==
  {List(s) : s \in Drizzle_orderBy({r \in rows : r.completed = completed})}

\* Drizzle_findByTags keeping the records that have every given tag.
Drizzle_findByTags_EveryTag(rows, tags) ==
  {List(SelectSeq(s, LAMBDA todo : \A i \in 1..Len(tags) : Includes(todo.tags, tags[i]))) :
     s \in Drizzle_orderBy(rows)}

Drizzle_findByTags(rows, tags) ==
  {List(SelectSeq(s, LAMBDA todo : \E i \in 1..Len(tags) : Includes(todo.tags, tags[i]))) :
     s \in Drizzle_orderBy(rows)}

(* --------------------------- Mongoose TodoSchema ------------------------ *)

SchemaPaths == {"title", "description", "completed", "priority", "tags", "dueDate"}

\* Casting against TodoSchema: paths outside the schema are dropped (strict),
\* title and description are trimmed.
SchemaCast(data) ==
  [f \in DOMAIN data \cap SchemaPaths |->
     IF f \in {"title", "description"} THEN Trim(data[f]) ELSE data[f]]

\* title: required, maxlength 255; description: maxlength 1000;
\* priority: enum.  Checked on the cast values that are present.
SchemaValid(cast) ==
  /\ "title" \in DOMAIN cast => (Len(cast.title) >= 1 /\ Len(cast.title) <= 255)
  /\ "description" \in DOMAIN cast => Len(cast.description) <= 1000
  /\ "priority" \in DOMAIN cast => cast.priority \in {Low, Medium, High}

ValidationError ==
  [name |-> "ValidationError", code |-> "validation", isHttp |-> FALSE, status |-> 0]

WhereCuid(docs, id) == {d \in docs : d.cuid = id}

SortCreatedAtDesc(docs) == OrderByDesc(docs)

(* --------------------------- MongooseTodoRepository --------------------- *)

Mongoose_mapDocumentToEntity(doc) ==
  [id          |-> doc.cuid,
   title       |-> doc.title,
   description |-> doc.description,
   completed   |-> doc.completed,
   priority    |-> doc.priority,
   tags        |-> doc.tags,
   dueDate     |-> doc.dueDate,
   metadata    |-> Undef,
   createdAt   |-> doc.createdAt,
   updatedAt   |-> doc.updatedAt]

Mongoose_create(docs, data, id, now) ==
  LET cast == SchemaCast(
        WithField(WithField(data,
          "tags", Field(data, "tags", <<>>)),
          "completed", Field(data, "completed", FALSE)))
      saved ==
        [cuid        |-> id,
         title       |-> Field(cast, "title", <<>>),
         description |-> Field(cast, "description", Undef),
         completed   |-> Field(cast, "completed", FALSE),
         priority    |-> Field(cast, "priority", Medium),
         tags        |-> Field(cast, "tags", <<>>),
         dueDate     |-> Field(cast, "dueDate", Undef),
         createdAt   |-> now,
         updatedAt   |-> now]
  IN IF ~("title" \in DOMAIN cast /\ SchemaValid(cast))
     THEN [rows |-> docs, res |-> Throws(ValidationError)]
     ELSE [rows |-> docs \cup {saved}, res |-> Value(Mongoose_mapDocumentToEntity(saved))]

Mongoose_findAll(docs) ==
  {List(Map(s, Mongoose_mapDocumentToEntity)) : s \in SortCreatedAtDesc(docs)}

Mongoose_findById(docs, id) ==
  IF WhereCuid(docs, id) = {} THEN ReturnsNull
  ELSE Value(Mongoose_mapDocumentToEntity(CHOOSE d \in WhereCuid(docs, id) : TRUE))

Mongoose_update(docs, id, data, now) ==
  LET cast == SchemaCast(data)
  IN IF ~SchemaValid(cast) THEN [rows |-> docs, res |-> Throws(ValidationError)]
     ELSE IF WhereCuid(docs, id) = {}
     THEN [rows |-> docs, res |-> Throws(PlainNotFoundError)]
     ELSE LET old == CHOOSE d \in WhereCuid(docs, id) : TRUE
              updated == SetFields(old, WithField(cast, "updatedAt", now))
          IN [rows |-> (docs \ {old}) \cup {updated},
              res |-> Value(Mongoose_mapDocumentToEntity(updated))]

Mongoose_delete(docs, id) ==
  IF WhereCuid(docs, id) = {} THEN [rows |-> docs, res |-> Throws(PlainNotFoundError)]
  ELSE LET old == CHOOSE d \in WhereCuid(docs, id) : TRUE
       IN [rows |-> docs \ {old}, res |-> Value(Mongoose_mapDocumentToEntity(old))]

Mongoose_findByCompleted(docs, completed) ==
  {List(Map(s, Mongoose_mapDocumentToEntity)) :
     s \in SortCreatedAtDesc({d \in docs : d.completed = completed})}

\* Mongoose_findByTags with no filter when the tag list is empty.
Mongoose_findByTags_EmptyMatchesAll(docs, tags) ==
  {List(Map(s, Mongoose_mapDocumentToEntity)) :
     s \in SortCreatedAtDesc({d \in docs :
            tags = <<>> \/ \E i \in 1..Len(tags) : Includes(d.tags, tags[i])})}

Mongoose_findByTags(docs, tags) ==
  {List(Map(s, Mongoose_mapDocumentToEntity)) :
     s \in SortCreatedAtDesc({d \in docs : \E i \in 1..Len(tags) : Includes(d.tags, tags[i])})}

(* ------------------ TodosService over the injected TODO_REPOSITORY ----- *)

Service_create(b, rows, data, id, now) ==
  CASE b = PRISMA_POSTGRESQL  -> Prisma_create(rows, data, id, now)
    [] b = DRIZZLE_POSTGRESQL -> Drizzle_create(rows, data, id, now)
    [] b = MONGOOSE_MONGODB   -> Mongoose_create(rows, data, id, now)

Service_findAll(b, rows) ==
  CASE b = PRISMA_POSTGRESQL  -> Prisma_findAll(rows)
    [] b = DRIZZLE_POSTGRESQL -> Drizzle_findAll(rows)
    [] b = MONGOOSE_MONGODB   -> Mongoose_findAll(rows)

Service_findById(b, rows, id) ==
  CASE b = PRISMA_POSTGRESQL  -> Prisma_findById(rows, id)
    [] b = DRIZZLE_POSTGRESQL -> Drizzle_findById(rows, id)
    [] b = MONGOOSE_MONGODB   -> Mongoose_findById(rows, id)

Service_update(b, rows, id, data, now) ==
  CASE b = PRISMA_POSTGRESQL  -> Prisma_update(rows, id, data, now)
    [] b = DRIZZLE_POSTGRESQL -> Drizzle_update(rows, id, data, now)
    [] b = MONGOOSE_MONGODB   -> Mongoose_update(rows, id, data, now)

Service_delete(b, rows, id) ==
  CASE b = PRISMA_POSTGRESQL  -> Prisma_delete(rows, id)
    [] b = DRIZZLE_POSTGRESQL -> Drizzle_delete(rows, id)
    [] b = MONGOOSE_MONGODB   -> Mongoose_delete(rows, id)

Service_findByCompleted(b, rows, completed) ==
  CASE b = PRISMA_POSTGRESQL  -> Prisma_findByCompleted(rows, completed)
    [] b = DRIZZLE_POSTGRESQL -> Drizzle_findByCompleted(rows, completed)
    [] b = MONGOOSE_MONGODB   -> Mongoose_findByCompleted(rows, completed)

Service_findByTags(b, rows, tags) ==
  CASE b = PRISMA_POSTGRESQL  -> Prisma_findByTags(rows, tags)
    [] b = DRIZZLE_POSTGRESQL -> Drizzle_findByTags(rows, tags)
    [] b = MONGOOSE_MONGODB   -> Mongoose_findByTags(rows, tags)

(* --------------------------- validation schemas ------------------------ *)

TodoSchemaKeys ==
  {"title", "description", "completed", "priority", "dueDate", "tags", "metadata"}

TodoFieldsValid(body) ==
  /\ "title" \in DOMAIN body => (Len(body.title) >= 1 /\ Len(body.title) <= 200)
  /\ "description" \in DOMAIN body => Len(body.description) <= 1000
  /\ "priority" \in DOMAIN body => body.priority \in {Low, Medium, High}

\* One ZodError issue.
Issue(path, code, message) == [path |-> path, code |-> code, message |-> message]

\* The issues of the field rules the two schemas share, one per violated rule.
TodoFieldIssues(body) ==
  {Issue("title", "too_small", "Title is required") :
     x \in {1} \cap (IF "title" \in DOMAIN body /\ Len(body.title) < 1 THEN {1} ELSE {})}
  \cup
  {Issue("title", "too_big", "Title must be less than 200 characters") :
     x \in {1} \cap (IF "title" \in DOMAIN body /\ Len(body.title) > 200 THEN {1} ELSE {})}
  \cup
  {Issue("description", "too_big", "Description must be less than 1000 characters") :
     x \in {1} \cap (IF "description" \in DOMAIN body /\ Len(body.description) > 1000 THEN {1} ELSE {})}
  \cup
  {Issue("priority", "invalid_enum_value", "Invalid enum value") :
     x \in {1} \cap (IF "priority" \in DOMAIN body /\ body.priority \notin {Low, Medium, High}
                     THEN {1} ELSE {})}

CreateTodoSchema_issues(body) ==
  (IF "title" \in DOMAIN body THEN {} ELSE {Issue("title", "invalid_type", "Required")})
  \cup TodoFieldIssues(body)

UpdateTodoSchema_issues(body) == TodoFieldIssues(body)

CreateDefault(f) ==
  CASE f = "completed" -> FALSE
    [] f = "priority"  -> Medium
    [] f = "tags"      -> <<>>

\* CreateTodoSchema.parse: unknown keys are stripped, defaults are filled in.
CreateTodoSchema_parse(body) ==
  IF "title" \in DOMAIN body /\ TodoFieldsValid(body)
  THEN [ok |-> TRUE,
        value |-> [f \in (DOMAIN body \cap TodoSchemaKeys) \cup {"completed", "priority", "tags"} |->
                     IF f \in DOMAIN body THEN body[f] ELSE CreateDefault(f)]]
  ELSE [ok |-> FALSE, issues |-> CreateTodoSchema_issues(body)]

\* UpdateTodoSchema.parse: every key optional, unknown keys are stripped.
UpdateTodoSchema_parse(body) ==
  IF TodoFieldsValid(body)
  THEN [ok |-> TRUE, value |-> [f \in DOMAIN body \cap TodoSchemaKeys |-> body[f]]]
  ELSE [ok |-> FALSE, issues |-> UpdateTodoSchema_issues(body)]

\* ZodValidationPipe.transform on a ZodError: a BadRequestException whose
\* response lists {field, message, code} for each issue.
ZodValidationPipe_formattedErrors(issues) ==
  {[field |-> i.path, message |-> i.message, code |-> i.code] : i \in issues}

ZodValidationPipe_throws(issues) ==
  [name |-> "BadRequestException", code |-> "Validation failed", isHttp |-> TRUE, status |-> 400,
   errors |-> ZodValidationPipe_formattedErrors(issues)]

(* --------------------------- TodosController ---------------------------- *)

\* What a handler (with its pipes) does: the store after it, what the
\* repository answered, what the handler returns or throws.
Handled(rows, repo, ret) == [rows |-> rows, repo |-> repo, ret |-> ret]

Controller_create(b, rows, req, id, now) ==
  LET parsed == CreateTodoSchema_parse(req.body)
      r == Service_create(b, rows, parsed.value, id, now)
  IN IF ~parsed.ok THEN {Handled(rows, NotCalled, Throws(ZodValidationPipe_throws(parsed.issues)))}
     ELSE {Handled(r.rows, r.res, r.res)}

Controller_findAll(b, rows) ==
  {Handled(rows, r, r) : r \in Service_findAll(b, rows)}

Controller_findCompleted(b, rows, req) ==
  LET status == IF req.arg.status = Undef THEN <<"true">> ELSE req.arg.status
      completed == (status = <<"true">>)
  IN {Handled(rows, r, r) : r \in Service_findByCompleted(b, rows, completed)}

\* tags ? tags.split(',').map((tag) => tag.trim()) : []
Controller_findByTags_tagArray(tags) ==
  IF tags # Undef /\ tags # <<>> THEN Map(Split(tags, ","), Trim) ELSE <<>>

Controller_findByTags(b, rows, req) ==
  LET tagArray == Controller_findByTags_tagArray(req.arg.tags)
  IN {Handled(rows, r, r) : r \in Service_findByTags(b, rows, tagArray)}

\* The argument the handler of GET /todos/by-tags passed to
\* TodosService.findByTags for a tags parameter.
TagsCall(called, tags, tagArray) == [called |-> called, tags |-> tags, tagArray |-> tagArray]

NoTagsCall == TagsCall(FALSE, Undef, <<>>)

Controller_findOne(b, rows, req) ==
  LET todo == Service_findById(b, rows, req.id)
  IN IF todo.kind = "null" THEN {Handled(rows, todo, Throws(ApiError_todoNotFound))}
     ELSE {Handled(rows, todo, todo)}

Controller_update(b, rows, req, now) ==
  LET parsed == UpdateTodoSchema_parse(req.body)
      r == Service_update(b, rows, req.id, parsed.value, now)
  IN IF ~parsed.ok THEN {Handled(rows, NotCalled, Throws(ZodValidationPipe_throws(parsed.issues)))}
     ELSE {Handled(r.rows, r.res, r.res)}

Controller_remove(b, rows, req) ==
  LET r == Service_delete(b, rows, req.id)
  IN {Handled(r.rows, r.res, r.res)}

Handle(b, rows, req, id, now) ==
  CASE req.op = "create"        -> Controller_create(b, rows, req, id, now)
    [] req.op = "findAll"       -> Controller_findAll(b, rows)
    [] req.op = "findCompleted" -> Controller_findCompleted(b, rows, req)
    [] req.op = "findByTags"    -> Controller_findByTags(b, rows, req)
    [] req.op = "findOne"       -> Controller_findOne(b, rows, req)
    [] req.op = "update"        -> Controller_update(b, rows, req, now)
    [] req.op = "remove"        -> Controller_remove(b, rows, req)

\* @Cacheable / @CacheInvalidate metadata of each handler.
NoOptions == [none |-> TRUE]

CacheInvalidateMetadata(op) ==
  CASE op = "create" -> [pattern |-> <<"TodosController:findAll:*">>, tags |-> <<"todos">>]
    [] op \in {"update", "remove"} -> [pattern |-> <<"todos:*">>, tags |-> <<"todos">>]
    [] OTHER -> NoOptions

CacheKeyMetadata(op) ==
  CASE op = "findAll"       -> <<"todos:all">>
    [] op = "findCompleted" -> <<"todos:completed">>
    [] op = "findByTags"    -> <<"todos:by-tags">>
    [] op = "findOne"       -> <<"todos:by-id">>
    [] OTHER -> <<>>

(* --------------------------- CacheInterceptor --------------------------- *)

NoKey == [prefix |-> <<>>, method |-> "", url |-> <<>>, params |-> <<>>, query |-> <<>>]

generateCacheKey(prefix, request) ==
  [prefix |-> prefix, method |-> request.method, url |-> request.url,
   params |-> request.params, query |-> request.query]

CacheSet(c, key, response) ==
  [k \in DOMAIN c \cup {key} |-> IF k = key THEN response ELSE c[k]]

CacheDel(c, keys) == [k \in DOMAIN c \ keys |-> c[k]]

\* The options CacheModule registers the cache store with.
CacheModule_useFactory(cacheProvider) ==
  CASE cacheProvider = "redis"  -> [ttl |-> 60000, max |-> 1000]
    [] cacheProvider = "memory" -> [ttl |-> 60000, max |-> 1000]
    [] OTHER                    -> [ttl |-> 0, max |-> 0]

\* cacheManager.set(key, response, ttl) with the positive ttl the interceptor
\* passes: the caches it can leave.  What a store registered with max: 0 does
\* with the entry is the cache library's choice.
CacheManager_set(options, c, key, response) ==
  IF options.max > 0 THEN {CacheSet(c, key, response)}
  ELSE {CacheSet(c, key, response), c}

Intercepted(h, c, hit, key) ==
  [rows |-> h.rows, repo |-> h.repo, ret |-> h.ret, cache |-> c, hit |-> hit, key |-> key]

CacheInterceptor_intercept(options, b, rows, c, req, id, now) ==
  LET invalidateOptions == CacheInvalidateMetadata(req.op)
      keyPrefix == CacheKeyMetadata(req.op)
      cacheKey == generateCacheKey(keyPrefix, req)
      afterDel == IF "keys" \in DOMAIN invalidateOptions
                  THEN CacheDel(c, {invalidateOptions.keys[i] : i \in 1..Len(invalidateOptions.keys)})
                  ELSE c
  IN IF invalidateOptions # NoOptions
     THEN {Intercepted(h, afterDel, FALSE, NoKey) : h \in Handle(b, rows, req, id, now)}
     ELSE IF keyPrefix = <<>>
     THEN {Intercepted(h, c, FALSE, NoKey) : h \in Handle(b, rows, req, id, now)}
     ELSE IF cacheKey \in DOMAIN c
     THEN {Intercepted(Handled(rows, NotCalled, c[cacheKey]), c, TRUE, cacheKey)}
     ELSE UNION {{Intercepted(h, stored, FALSE, cacheKey) :
                    stored \in (IF h.ret.kind # "throw"
                                THEN CacheManager_set(options, c, cacheKey, h.ret) ELSE {c})} :
                 h \in Handle(b, rows, req, id, now)}

(* --------------------------- HTTP exchange ------------------------------ *)

UnifiedExceptionFilter_status(exception) ==
  IF exception.isHttp THEN exception.status ELSE 500

\* The payload UnifiedExceptionFilter.catch sends (timestamp and stack apart).
UnifiedExceptionFilter_send(exception, request) ==
  LET status == UnifiedExceptionFilter_status(exception)
  IN [success    |-> FALSE,
      error      |-> [code    |-> IF status >= 500 THEN "INTERNAL_SERVER_ERROR" ELSE "CLIENT_ERROR",
                      message |-> IF exception.isHttp THEN exception.code ELSE "Internal server error"],
      statusCode |-> status,
      path       |-> request.url]

\* The body of the response: what the handler returned, or what the filter sent.
ResponseBody(req, ret) ==
  IF ret.kind = "throw" THEN [kind |-> "error", value |-> UnifiedExceptionFilter_send(ret.error, req)]
  ELSE ret

ResponseStatus(req, ret) ==
  IF ret.kind = "throw" THEN UnifiedExceptionFilter_status(ret.error)
  ELSE IF req.method = "POST" THEN 201 ELSE 200

Request(op, method, url, params, query, id, arg, body) ==
  [op |-> op, method |-> method, url |-> url, params |-> params, query |-> query,
   id |-> id, arg |-> arg, body |-> body]

NoArg == [none |-> TRUE]

NoRequest == Request("none", "", <<>>, <<>>, <<>>, "", NoArg, <<>>)

\* A method of TodosService called directly (no HTTP exchange around it).
Call(op, id, arg, body) == Request(op, "", <<>>, <<>>, <<>>, id, arg, body)

IdsOf(b, rows) ==
  IF b = MONGOOSE_MONGODB THEN {d.cuid : d \in rows} ELSE {r.id : r \in rows}

IsWrite(req) == req.method \in {"POST", "PATCH", "DELETE"}

Last(req, key, hit, status, body, repo) ==
  [req |-> req, key |-> key, hit |-> hit, status |-> status, body |-> body, repo |-> repo]

NoLast == Last(NoRequest, NoKey, FALSE, 0, NotCalled, NotCalled)

\* The client scenario POST /todos, GET /todos/{id}, PATCH /todos/{id},
\* DELETE /todos/{id}, GET /todos/{id}: how many of its requests, on the todo
\* the POST created, have been served one after the other.
NoScript == [id |-> "", step |-> 0]

ScriptAfter(sc, req, status, newId) ==
  IF req.op = "create" /\ status = 201 THEN [id |-> newId, step |-> 1]
  ELSE IF req.id = sc.id /\
          \/ sc.step = 1 /\ req.op = "findOne" /\ status = 200
          \/ sc.step = 2 /\ req.op = "update" /\ status = 200
          \/ sc.step = 3 /\ req.op = "remove"
          \/ sc.step = 4 /\ req.op = "findOne"
       THEN [id |-> sc.id, step |-> sc.step + 1]
  ELSE NoScript

\* The options the cache store of the running application was registered
\* with: CacheModule's factory reads the cache provider once, at start-up.
CacheModule_options == CacheModule_useFactory(boot.snapshot.cache)

\* One process serving one HTTP request: the states it can end in.
\* stale: keys of the cache entries stored before the latest completed write;
\* deleted: ids of the records removed so far.
ProcServeOn(b, rows, req, id, now) ==
  {[db      |-> o.rows,
    cache   |-> o.cache,
    last    |-> Last(req, o.key, o.hit, ResponseStatus(req, o.ret), ResponseBody(req, o.ret), o.repo),
    stale   |-> IF IsWrite(req) /\ ResponseStatus(req, o.ret) < 400 THEN DOMAIN o.cache
                ELSE IF o.hit THEN stale[b] ELSE stale[b] \ {o.key},
    deleted |-> deleted[b] \cup (IdsOf(b, rows) \ IdsOf(b, o.rows)),
    script  |-> ScriptAfter(script[b], req, ResponseStatus(req, o.ret), id)] :
   o \in CacheInterceptor_intercept(CacheModule_options, b, rows, cache[b], req, id, now)}

ProcServe(b, req, id, now) == ProcServeOn(b, db[b], req, id, now)

\* What a direct call of a TodosService method does and answers.
ServiceCall(b, rows, req, id, now) ==
  CASE req.op = "create"          -> {Service_create(b, rows, req.body, id, now)}
    [] req.op = "update"          -> {Service_update(b, rows, req.id, req.body, now)}
    [] req.op = "delete"          -> {Service_delete(b, rows, req.id)}
    [] req.op = "findById"        -> {[rows |-> rows, res |-> Service_findById(b, rows, req.id)]}
    [] req.op = "findAll"         -> {[rows |-> rows, res |-> r] : r \in Service_findAll(b, rows)}
    [] req.op = "findByCompleted" ->
         {[rows |-> rows, res |-> r] : r \in Service_findByCompleted(b, rows, req.arg.completed)}
    [] req.op = "findByTags"      ->
         {[rows |-> rows, res |-> r] : r \in Service_findByTags(b, rows, req.arg.tags)}

\* One process answering one direct call: the states it can end in.
ProcCall(b, req, id, now) ==
  {[db      |-> o.rows,
    cache   |-> cache[b],
    last    |-> Last(req, NoKey, FALSE, 0, NotCalled, o.res),
    stale   |-> stale[b],
    deleted |-> deleted[b] \cup (IdsOf(b, db[b]) \ IdsOf(b, o.rows)),
    script  |-> script[b]] :
   o \in ServiceCall(b, db[b], req, id, now)}

NoProc ==
  [db |-> {}, cache |-> <<>>, last |-> NoLast, stale |-> {}, deleted |-> {}, script |-> NoScript]

\* Every running process takes the same step; each ends in one of its outcomes.
Apply(Outs(_)) ==
  \E oP \in (IF PRISMA_POSTGRESQL \in running THEN Outs(PRISMA_POSTGRESQL) ELSE {NoProc}),
     oD \in (IF DRIZZLE_POSTGRESQL \in running THEN Outs(DRIZZLE_POSTGRESQL) ELSE {NoProc}),
     oM \in (IF MONGOOSE_MONGODB \in running THEN Outs(MONGOOSE_MONGODB) ELSE {NoProc}) :
    LET o(b) == CASE b = PRISMA_POSTGRESQL  -> oP
                  [] b = DRIZZLE_POSTGRESQL -> oD
                  [] b = MONGOOSE_MONGODB   -> oM
    IN /\ db' = [b \in running |-> o(b).db]
       /\ cache' = [b \in running |-> o(b).cache]
       /\ last' = [b \in running |-> o(b).last]
       /\ stale' = [b \in running |-> o(b).stale]
       /\ deleted' = [b \in running |-> o(b).deleted]
       /\ script' = [b \in running |-> o(b).script]
       /\ UNCHANGED <<running, clock, boot, tracker, aside>>

\* An id generator that hands out the same id again.
createId_Repeating == ToString(1)

createId == ToString(nextId)

Serve(req) == LET Outs(b) == ProcServe(b, req, createId, clock) IN Apply(Outs)

Invoke(req) == LET Outs(b) == ProcCall(b, req, createId, clock) IN Apply(Outs)

(* --------------------------- inputs ------------------------------------- *)

\* Bodies sent to POST /todos (the last one lacks the title).
CreateBodies ==
  {[title |-> <<"a">>, tags |-> << <<"x">> >>],
   [description |-> <<"d">>]}

\* Bodies sent to PATCH /todos/:id (the last one has an empty title and a
\* priority outside the enumeration).
UpdateBodies ==
  {[completed |-> TRUE],
   [title |-> <<>>, priority |-> <<"urgent">>]}

StatusParams == {Undef, <<"false">>}

TagsParams == {<<"x", ",", " ", "y">>}

\* CreateTodoInput values handed to TodosService.create.
CreateInputs ==
  {[title |-> <<"a">>],
   [title |-> <<" ", "b">>, completed |-> TRUE, priority |-> High,
    tags |-> << <<"x">> >>, metadata |-> <<"{k:1}">>]}

\* UpdateTodoInput values handed to TodosService.update.
UpdateInputs ==
  {<<>>,
   [completed |-> TRUE, title |-> <<"c", " ">>],
   [tags |-> << <<"y">> >>, metadata |-> <<"{k:2}">>]}

TagLists == {<<>>, << <<"x">>, <<"z">> >>}

RequestIds == {ToString(n) : n \in 0..MaxTodos}

(* --------------------------- feature providers ------------------------- *)

ErrorTrackingProvider == {"bugsnag", "sentry", "posthog", "none"}

AuthProvider == {"composite", "bearer-only", "api-key-only", "none"}

CacheProvider == {"redis", "memory", "none"}

DocumentationProvider == {"swagger", "none"}

LoggingProvider == {"detailed", "basic", "none"}

PerformanceProvider == {"full", "basic", "none"}

\* The provider options in the order loadAndValidateConfig reads them:
\* feature, environment variable, VALID_PROVIDERS entry, default value.
ProviderOptions ==
  << [feature |-> "database",      envVar |-> "DATABASE_PROVIDER",
      valid |-> DatabaseProvider,      dflt |-> PRISMA_POSTGRESQL],
     [feature |-> "errorTracking", envVar |-> "ERROR_TRACKING_PROVIDER",
      valid |-> ErrorTrackingProvider, dflt |-> "none"],
     [feature |-> "auth",          envVar |-> "AUTH_PROVIDER",
      valid |-> AuthProvider,          dflt |-> "composite"],
     [feature |-> "cache",         envVar |-> "CACHE_PROVIDER",
      valid |-> CacheProvider,         dflt |-> "redis"],
     [feature |-> "documentation", envVar |-> "DOCUMENTATION_PROVIDER",
      valid |-> DocumentationProvider, dflt |-> "swagger"],
     [feature |-> "logging",       envVar |-> "LOGGING_PROVIDER",
      valid |-> LoggingProvider,       dflt |-> "basic"],
     [feature |-> "performance",   envVar |-> "PERFORMANCE_PROVIDER",
      valid |-> PerformanceProvider,   dflt |-> "basic"] >>

Features == {ProviderOptions[i].feature : i \in 1..Len(ProviderOptions)}

(* --------------------------- FeatureFlagsService ------------------------ *)

\* The environment is a function from the names of the variables that are
\* set to their values.  ConfigService.get(key, defaultValue).
ConfigService_get(env, key, defaultValue) ==
  IF key \in DOMAIN env THEN env[key] ELSE defaultValue

\* !configService.get(key): the variable is unset or empty.
Missing(env, key) == key \notin DOMAIN env \/ env[key] = ""

InvalidProviderError(envVar, value) ==
  [name |-> "Error", kind |-> "invalid-provider", envVars |-> {envVar}, value |-> value]

\* getValidatedProvider without the membership test.
getValidatedProvider_Unchecked(env, envVar, validOptions, defaultValue) ==
  Value(ConfigService_get(env, envVar, defaultValue))

getValidatedProvider(env, envVar, validOptions, defaultValue) ==
  LET value == ConfigService_get(env, envVar, defaultValue)
  IN IF value \notin validOptions THEN Throws(InvalidProviderError(envVar, value))
     ELSE Value(value)

ValidationFailedError(errors) ==
  [name |-> "Error", kind |-> "validation-failed", errors |-> errors]

\* The errors validateConfiguration collects, in the order it pushes them.
validateConfiguration_errors(env, config) ==
  SelectSeq(
    << [when |-> \E f \in DOMAIN config : config[f] = "",
        error |-> "Feature has no provider selected"],
       [when |-> config.database = MONGOOSE_MONGODB /\ Missing(env, "MONGODB_URL"),
        error |-> "MONGODB_URL is required when using mongoose-mongodb database provider"],
       [when |-> config.database \in {PRISMA_POSTGRESQL, DRIZZLE_POSTGRESQL}
                 /\ Missing(env, "DATABASE_URL"),
        error |-> "DATABASE_URL is required when using PostgreSQL database providers"],
       [when |-> config.cache = "redis" /\ Missing(env, "REDIS_HOST"),
        error |-> "REDIS_HOST is required when using redis cache provider"] >>,
    LAMBDA c : c.when)

\* validateConfiguration throwing on the first error it finds.
validateConfiguration_FirstErrorOnly(env, config) ==
  LET errors == validateConfiguration_errors(env, config)
  IN IF Len(errors) > 0 THEN Throws(ValidationFailedError(<<errors[1].error>>))
     ELSE Value(config)

validateConfiguration(env, config) ==
  LET errors == validateConfiguration_errors(env, config)
  IN IF Len(errors) > 0
     THEN Throws(ValidationFailedError([i \in 1..Len(errors) |-> errors[i].error]))
     ELSE Value(config)

\* The options are read in order; the first one that throws ends the call.
loadAndValidateConfig(env) ==
  LET read(i) == getValidatedProvider(env, ProviderOptions[i].envVar,
                                      ProviderOptions[i].valid, ProviderOptions[i].dflt)
      bad == {i \in 1..Len(ProviderOptions) : read(i).kind = "throw"}
      config == [f \in Features |->
                   read(CHOOSE i \in 1..Len(ProviderOptions) : ProviderOptions[i].feature = f).value]
  IN IF bad # {} THEN read(CHOOSE i \in bad : \A j \in bad : i <= j)
     ELSE validateConfiguration(env, config)

\* The FeatureFlagsService object lives at reference 1 of the heap of
\* configuration objects; getConfig() hands out further references.
ConfigRef == 1

FeatureFlagsService_constructor(env) ==
  LET r == loadAndValidateConfig(env)
  IN IF r.kind = "throw" THEN [heap |-> <<>>, res |-> r]
     ELSE [heap |-> [ref \in {ConfigRef} |-> r.value], res |-> Value(ConfigRef)]

\* getConfig() returning this.config itself instead of a copy.
FeatureFlagsService_getConfig_Aliased(heap) == [heap |-> heap, res |-> ConfigRef]

\* getConfig(): { ...this.config }, a new object with the same fields.
FeatureFlagsService_getConfig(heap) ==
  LET ref == Len(heap) + 1
  IN [heap |-> [x \in DOMAIN heap \cup {ref} |-> IF x = ref THEN heap[ConfigRef] ELSE heap[x]],
      res |-> ref]

\* getDatabaseProvider(), getErrorTrackingProvider(), ...: this.config.<feature>.
FeatureFlagsService_get(heap, feature) == heap[ConfigRef][feature]

isErrorTrackingEnabled(heap) == FeatureFlagsService_get(heap, "errorTracking") # "none"

(* --------------------------- repository provider ------------------------ *)

UnknownDatabaseProviderError(databaseProvider) ==
  [name |-> "Error", kind |-> "unknown-database-provider", value |-> databaseProvider]

\* A useFactory whose switch has no case of its own for drizzle-postgresql
\* and falls back to the Prisma repository instead of throwing.
createRepositoryProvider_useFactory_PrismaFallback(databaseProvider) ==
  IF databaseProvider = MONGOOSE_MONGODB THEN Value(MONGOOSE_MONGODB)
  ELSE Value(PRISMA_POSTGRESQL)

\* useFactory of createRepositoryProvider as TodosModule calls it (the three
\* repository classes given; the constructor arguments it passes on are not
\* part of the model).  A process is named after the repository
\* implementation it runs: PRISMA_POSTGRESQL runs PrismaTodoRepository, etc.
createRepositoryProvider_useFactory(databaseProvider) ==
  CASE databaseProvider = PRISMA_POSTGRESQL  -> Value(PRISMA_POSTGRESQL)
    [] databaseProvider = DRIZZLE_POSTGRESQL -> Value(DRIZZLE_POSTGRESQL)
    [] databaseProvider = MONGOOSE_MONGODB   -> Value(MONGOOSE_MONGODB)
    [] OTHER -> Throws(UnknownDatabaseProviderError(databaseProvider))

\* inject of the provider createRepositoryProvider returns.
createRepositoryProvider_inject == <<"DATABASE_PROVIDER">>

\* useFactory: (databaseProvider, ...dependencies): the injected values after
\* the first.
createRepositoryProvider_dependencies == Tail(createRepositoryProvider_inject)

\* new options.xRepository(...dependencies): the first constructor parameter
\* (prisma, drizzle, todoModel) of the instance injected as TODO_REPOSITORY.
Repository_client(dependencies) ==
  IF dependencies = <<>> THEN "undefined" ELSE dependencies[1]

\* this.prisma.todo..., this.drizzle.db..., this.todoModel... on undefined.
TypeError == [name |-> "TypeError", code |-> "undefined client", isHttp |-> FALSE, status |-> 0]

\* 'DATABASE_PROVIDER' of RepositoryModule.forRoot.
RepositoryModule_databaseProvider(heap) == FeatureFlagsService_get(heap, "database")

(* --------------------------- error tracking ----------------------------- *)

\* The variable holding the credential of each backend, and the placeholder
\* value its onModuleInit treats like a missing one.
Credential(provider) ==
  CASE provider = "bugsnag" -> [envVar |-> "BUGSNAG_API_KEY", placeholder |-> "test-bugsnag-key"]
    [] provider = "sentry"  -> [envVar |-> "SENTRY_DSN", placeholder |-> "your-sentry-dsn-here"]
    [] provider = "posthog" -> [envVar |-> "POSTHOG_API_KEY", placeholder |-> "your-posthog-api-key-here"]

\* onModuleInit of BugsnagService, SentryService, PostHogService: whether the
\* service can end initialized.  Without the credential it warns and returns;
\* with it, the SDK's start either succeeds or throws, which is caught.
onModuleInit_initialized(env, provider) ==
  IF Missing(env, Credential(provider).envVar)
     \/ env[Credential(provider).envVar] = Credential(provider).placeholder
  THEN {FALSE}
  ELSE {TRUE, FALSE}

\* The optional methods of IErrorTrackingService each backend has.
BackendMethods(provider) ==
  CASE provider = "bugsnag" -> {"captureException", "setUser", "addBreadcrumb"}
    [] provider = "sentry"  -> {"captureException", "captureMessage", "setUser", "addBreadcrumb", "flush"}
    [] provider = "posthog" -> {"captureException", "setUser", "flush"}

\* UnifiedErrorTrackingService.initializeService: the active backend, or "none".
initializeService(heap) ==
  LET provider == FeatureFlagsService_get(heap, "errorTracking")
  IN IF ~isErrorTrackingEnabled(heap) THEN "none"
     ELSE IF provider \in {"bugsnag", "sentry", "posthog"} THEN provider
     ELSE "none"

\* What a call of the unified service did: the backend method it called (or
\* "none"), how the call ended for the caller, whether a failure was logged.
TrackerCall(method, called, backend, outcome, logged) ==
  [method |-> method, called |-> called, backend |-> backend, outcome |-> outcome, logged |-> logged]

NoTrackerCall == TrackerCall("none", "none", "ok", "returned", FALSE)

\* try { activeService.<called>(...) } catch (err) { logger.error(...) }
Guarded(method, called, backend) ==
  TrackerCall(method, called, backend, "returned", backend = "throws")

Skipped(method) == TrackerCall(method, "none", "ok", "returned", FALSE)

\* captureException with the backend call outside any try.
captureException_Unguarded(active, backend) ==
  IF active = "none" THEN Skipped("captureException")
  ELSE TrackerCall("captureException", "captureException", backend,
                   IF backend = "throws" THEN "threw" ELSE "returned", FALSE)

captureException(active, backend) ==
  IF active = "none" THEN Skipped("captureException")
  ELSE Guarded("captureException", "captureException", backend)

captureMessage(active, backend) ==
  IF active = "none" THEN Skipped("captureMessage")
  ELSE IF "captureMessage" \in BackendMethods(active)
  THEN Guarded("captureMessage", "captureMessage", backend)
  ELSE [captureException(active, backend) EXCEPT !.method = "captureMessage"]

setUser(active, backend) ==
  IF active = "none" THEN Skipped("setUser")
  ELSE Guarded("setUser", "setUser", backend)

addBreadcrumb(active, backend) ==
  IF active = "none" \/ "addBreadcrumb" \notin BackendMethods(active) THEN Skipped("addBreadcrumb")
  ELSE Guarded("addBreadcrumb", "addBreadcrumb", backend)

\* flush() returning the backend's promise without awaiting it in the try.
flush_NotAwaited(active, backend) ==
  IF active = "none" \/ "flush" \notin BackendMethods(active) THEN Skipped("flush")
  ELSE TrackerCall("flush", "flush", backend,
                   IF backend = "throws" THEN "rejected" ELSE "returned", FALSE)

\* flush(): the backend's promise is awaited inside the try.
flush(active, backend) ==
  IF active = "none" \/ "flush" \notin BackendMethods(active) THEN Skipped("flush")
  ELSE Guarded("flush", "flush", backend)

\* How a call of a backend method ends: it returns, or it throws (flush: rejects).
BackendOutcomes == {"ok", "throws"}

NoTracker == [active |-> "none", initialized |-> FALSE, last |-> NoTrackerCall]

(* --------------------------- captured metadata ------------------------- *)

\* Names are sequences of characters, so that toLowerCase and includes are
\* computed on them.
LowerCase(c) ==
  CASE c = "A" -> "a" [] c = "E" -> "e" [] c = "I" -> "i" [] c = "K" -> "k"
    [] c = "P" -> "p" [] c = "T" -> "t" [] c = "Y" -> "y" [] OTHER -> c

\* String.prototype.toLowerCase
ToLowerCase(s) == [i \in 1..Len(s) |-> LowerCase(s[i])]

\* String.prototype.includes
StringIncludes(s, sub) ==
  \E i \in 0..(Len(s) - Len(sub)) : SubSeq(s, i + 1, i + Len(sub)) = sub

sensitiveKeys ==
  {<<"p", "a", "s", "s", "w", "o", "r", "d">>, <<"t", "o", "k", "e", "n">>, <<"s", "e", "c", "r", "e", "t">>, <<"a", "p", "i", "K", "e", "y">>,
   <<"a", "u", "t", "h", "o", "r", "i", "z", "a", "t", "i", "o", "n">>}

\* sensitiveKeys.some((sensitive) => lowerKey.includes(sensitive))
IsSensitiveKey(key) ==
  \E sensitive \in sensitiveKeys : StringIncludes(ToLowerCase(key), sensitive)

\* JSON values: a string, null, or an object (its fields by name).
Text(value) == [type |-> "string", value |-> value]

JsonNull == [type |-> "null"]

Object(fields) == [type |-> "object", fields |-> fields]

REDACTED == Text("[REDACTED]")

\* sanitizeBody: anything but an object is returned as it is (null included);
\* of an object, the value under a sensitive key is replaced and any other
\* object value is sanitized in turn.
RECURSIVE sanitizeBody(_)
sanitizeBody(body) ==
  IF body.type # "object" THEN body
  ELSE Object([key \in DOMAIN body.fields |->
                 IF IsSensitiveKey(key) THEN REDACTED
                 ELSE IF body.fields[key].type \in {"object", "null"}
                 THEN sanitizeBody(body.fields[key])
                 ELSE body.fields[key]])

allowedHeaders ==
  {"content-type", "content-length", "user-agent", "accept", "accept-language",
   "accept-encoding", "referer", "origin"}

\* sanitizeHeaders: the allow-listed headers that are set and not empty.
sanitizeHeaders(headers) ==
  [header \in {h \in allowedHeaders : h \in DOMAIN headers /\ headers[h] # ""} |-> headers[header]]

\* The metadata captureHttpException hands to captureException (timestamp,
\* ip and the response part left out).
captureHttpException_metadata(request) ==
  [method  |-> request.method,
   url     |-> request.url,
   body    |-> sanitizeBody(request.body),
   headers |-> sanitizeHeaders(request.headers)]

\* What the error tracker was last handed: the request and the metadata.
Capture(called, request, metadata) == [called |-> called, request |-> request, metadata |-> metadata]

NoCapture == Capture(FALSE, <<>>, <<>>)

(* --------------------------- exception filter -------------------------- *)

NoError == [name |-> "none"]

\* captureHttpException: the metadata is built, then this.captureException.
captureHttpException(active, backend) ==
  [captureException(active, backend) EXCEPT !.method = "captureHttpException"]

\* A thrown value that is no Error object.
ThrownString == [name |-> "string", code |-> "oops", isHttp |-> FALSE, status |-> 0]

\* A NestJS HttpException other than the application's own.
ServiceUnavailableException ==
  [name |-> "ServiceUnavailableException", code |-> "Service Unavailable", isHttp |-> TRUE, status |-> 503]

\* What UnifiedExceptionFilter.catch did with an exception: the responses it
\* sent, with which status and payload, its calls of the error tracker and
\* whether catch itself threw.
Reply(exception, sent, status, payload, calls, threw) ==
  [exception |-> exception, sent |-> sent, status |-> status, payload |-> payload,
   calls |-> calls, threw |-> threw]

NoPayload == [none |-> TRUE]

NoReply == Reply(NoError, 0, 0, NoPayload, <<>>, FALSE)

\* UnifiedExceptionFilter.catch for a request of the given user ("" when
\* request.user is not set); userBackend and captureBackend are how the
\* backend's setUser and captureException end.
UnifiedExceptionFilter_catch(exception, request, userId, active, userBackend, captureBackend) ==
  LET status == UnifiedExceptionFilter_status(exception)
      user == IF userId # "" THEN <<setUser(active, userBackend)>> ELSE <<>>
      userThrew == user # <<>> /\ user[1].outcome # "returned"
      capture == captureHttpException(active, captureBackend)
  IN IF userThrew THEN Reply(exception, 0, 0, NoPayload, user, TRUE)
     ELSE IF capture.outcome # "returned"
     THEN Reply(exception, 0, 0, NoPayload, user \o <<capture>>, TRUE)
     ELSE Reply(exception, 1, status, UnifiedExceptionFilter_send(exception, request),
                user \o <<capture>>, FALSE)

(* --------------------------- authentication --------------------------- *)

UnauthorizedException(message) ==
  [name |-> "UnauthorizedException", code |-> message, isHttp |-> TRUE, status |-> 401]

\* What a guard decides: the request is admitted as a user, or it throws.
Admitted(user) == [admitted |-> TRUE, user |-> user, error |-> NoError]

Rejected(message) == [admitted |-> FALSE, user |-> "", error |-> UnauthorizedException(message)]

\* An authorization header is its scheme and what follows it; a token is its
\* text and the secret it was signed with.
Authorization(scheme, text, signedWith) ==
  [scheme |-> scheme, token |-> [text |-> text, signedWith |-> signedWith]]

\* request.headers['x-api-key'], truthy.
HasApiKeyHeader(headers) == "x-api-key" \in DOMAIN headers /\ headers["x-api-key"] # ""

\* request.headers['authorization']?.startsWith('Bearer ')
HasBearerToken(headers) ==
  "authorization" \in DOMAIN headers /\ headers["authorization"].scheme = "Bearer"

\* ApiKeyGuard.extractApiKey: the x-api-key header, else the Bearer token, else null ("").
extractApiKey(headers) ==
  IF HasApiKeyHeader(headers) THEN headers["x-api-key"]
  ELSE IF HasBearerToken(headers) THEN headers["authorization"].token.text
  ELSE ""

ApiKeyGuard_canActivate(env, isPublic, headers) ==
  LET apiKey == extractApiKey(headers)
  IN IF isPublic THEN Admitted("")
     ELSE IF apiKey = "" THEN Rejected("API key is missing")
     ELSE IF ~("API_KEY" \in DOMAIN env /\ apiKey = env["API_KEY"]) THEN Rejected("Invalid API key")
     ELSE Admitted("api-key-user")

\* BearerTokenGuard.verifyToken: reads JWT_SECRET and returns a fixed payload.
verifyToken(env, token) == Value("user-123")

BearerTokenGuard_canActivate(env, isPublic, headers) ==
  LET token == IF HasBearerToken(headers) THEN headers["authorization"].token.text ELSE ""
      payload == verifyToken(env, headers["authorization"].token)
  IN IF isPublic THEN Admitted("")
     ELSE IF token = "" THEN Rejected("Authorization token is missing")
     ELSE IF payload.kind = "throw" THEN Rejected("Invalid authorization token")
     ELSE Admitted(payload.value)

CompositeAuthGuard_canActivate(env, isPublic, headers) ==
  IF isPublic THEN Admitted("")
  ELSE IF HasApiKeyHeader(headers) THEN ApiKeyGuard_canActivate(env, isPublic, headers)
  ELSE IF HasBearerToken(headers) THEN BearerTokenGuard_canActivate(env, isPublic, headers)
  ELSE Rejected("Authentication required")

\* The last decision of the guard registered as APP_GUARD.
Admission(isPublic, headers, result) ==
  [isPublic |-> isPublic, headers |-> headers, result |-> result]

NoAdmission == Admission(TRUE, <<>>, Admitted(""))

(* --------------------------- start-up ----------------------------------- *)

\* The start-up of a process: its phase, the environment now and when the
\* process started, the heap of configuration objects, the configuration as
\* it was constructed, the reference getConfig() handed out (0: none), and
\* the error that aborted the start-up.
BootState(phase, env, heap, snapshot, error) ==
  [phase |-> phase, env |-> env, startEnv |-> env, heap |-> heap, snapshot |-> snapshot,
   handed |-> 0, error |-> error]

NoConfig == [none |-> TRUE]

\* NestFactory.create(AppModule): the providers are instantiated and their
\* onModuleInit hooks run.  The outcomes it can have in an environment.
NestFactory_create(env) ==
  LET c == FeatureFlagsService_constructor(env)
      repository == createRepositoryProvider_useFactory(RepositoryModule_databaseProvider(c.heap))
      active == initializeService(c.heap)
  IN IF c.res.kind = "throw" THEN {[ok |-> FALSE, error |-> c.res.error]}
     ELSE IF repository.kind = "throw" THEN {[ok |-> FALSE, error |-> repository.error]}
     ELSE {[ok |-> TRUE, heap |-> c.heap, repository |-> repository.value,
            tracker |-> [active |-> active, initialized |-> i, last |-> NoTrackerCall]] :
           i \in (IF active = "none" THEN {FALSE} ELSE onModuleInit_initialized(env, active))}

\* An environment in which every provider option has its default and every
\* connection string and credential is set.
ReferenceEnv ==
  [DATABASE_URL |-> "url", MONGODB_URL |-> "url", REDIS_HOST |-> "host",
   BUGSNAG_API_KEY |-> "key", SENTRY_DSN |-> "key", POSTHOG_API_KEY |-> "key",
   API_KEY |-> "api-key", JWT_SECRET |-> "secret"]

SetVar(key, value) == [key |-> key, set |-> TRUE, value |-> value]

UnsetVar(key) == [key |-> key, set |-> FALSE, value |-> ""]

Edited(env, e) ==
  IF e.set THEN [k \in DOMAIN env \cup {e.key} |-> IF k = e.key THEN e.value ELSE env[k]]
  ELSE [k \in DOMAIN env \ {e.key} |-> env[k]]

\* A provider option set to one of its values, to a value outside its
\* enumeration or to the empty string; a connection string or credential unset.
EnvEdits ==
  {SetVar(ProviderOptions[i].envVar, v) :
     i \in 1..Len(ProviderOptions), v \in DatabaseProvider \cup {"sentry", "bugsnag", "posthog", "memory", "none",
                                           "bearer-only", "api-key-only", "bogus", ""}}
  \cup {UnsetVar(k) : k \in DOMAIN ReferenceEnv}

RECURSIVE EnvsWithin(_)
EnvsWithin(n) ==
  IF n = 0 THEN {ReferenceEnv}
  ELSE LET fewer == EnvsWithin(n - 1)
       IN fewer \cup {Edited(env, e) : env \in fewer, e \in EnvEdits}

Envs == EnvsWithin(MaxEnvEdits)

\* The process after bootstrap() in the reference environment with the given
\* DATABASE_PROVIDER.
ListeningWith(databaseProvider) ==
  LET env == Edited(ReferenceEnv, SetVar("DATABASE_PROVIDER", databaseProvider))
      created == CHOOSE o \in NestFactory_create(env) : TRUE
  IN [BootState("listening", env, created.heap, created.heap[ConfigRef], NoError)
        EXCEPT !.startEnv = env]

\* Start-up not under observation.
Unobserved == BootState("unobserved", <<>>, <<>>, NoConfig, NoError)

\* The PATCH requests in flight: for each client, the request it sent and the
\* records stored when the request arrived.
Clients == {"first", "second"}

Patch(phase, req, seen) == [phase |-> phase, req |-> req, seen |-> seen]

NoPatches == [c \in Clients |-> Patch("idle", NoRequest, <<>>)]

(* --------------------------- feature requirements ----------------------- *)

\* A FeatureRequirement; an absent errorMessage is the empty string.
FeatureRequirement(feature, allowedProviders, errorMessage) ==
  [feature |-> feature, allowedProviders |-> allowedProviders, errorMessage |-> errorMessage]

\* The request carries no featureFlags property.
NoFeatureFlags == [none |-> TRUE]

BadRequestException(message) ==
  [name |-> "BadRequestException", code |-> message, isHttp |-> TRUE, status |-> 400]

\* requirement.allowedProviders.includes(featureFlags[requirement.feature])
forFeatures_includes(requirement, featureFlags) ==
  /\ requirement.feature \in DOMAIN featureFlags
  /\ \E i \in 1..Len(requirement.allowedProviders) :
       requirement.allowedProviders[i] = featureFlags[requirement.feature]

\* The entry pushed for an unmet requirement: its errorMessage or the text
\* built from the feature, the allowed providers and the current one.
forFeatures_errorMsg(requirement, featureFlags) ==
  IF requirement.errorMessage # ""
  THEN [text |-> requirement.errorMessage]
  ELSE [text |-> "must be one of", feature |-> requirement.feature,
        allowed |-> requirement.allowedProviders,
        current |-> IF requirement.feature \in DOMAIN featureFlags
                    THEN featureFlags[requirement.feature] ELSE "undefined"]

\* A loop that stops at the first unmet requirement.
RECURSIVE forFeatures_errors_FirstOnly(_, _)
forFeatures_errors_FirstOnly(requirements, featureFlags) ==
  IF requirements = <<>> THEN <<>>
  ELSE IF forFeatures_includes(Head(requirements), featureFlags)
  THEN forFeatures_errors_FirstOnly(Tail(requirements), featureFlags)
  ELSE <<forFeatures_errorMsg(Head(requirements), featureFlags)>>

RECURSIVE forFeatures_errors(_, _)
forFeatures_errors(requirements, featureFlags) ==
  IF requirements = <<>> THEN <<>>
  ELSE (IF forFeatures_includes(Head(requirements), featureFlags) THEN <<>>
        ELSE <<forFeatures_errorMsg(Head(requirements), featureFlags)>>)
       \o forFeatures_errors(Tail(requirements), featureFlags)

\* The middleware forFeatures(requirements) run on a request: whether it
\* called next() and what it threw.
FeatureValidationMiddleware_forFeatures(requirements, featureFlags) ==
  IF featureFlags = NoFeatureFlags
  THEN [next |-> FALSE,
        threw |-> BadRequestException([text |-> "Feature flags not available in request context",
                                       errors |-> <<>>])]
  ELSE LET errors == forFeatures_errors(requirements, featureFlags)
       IN IF Len(errors) > 0
          THEN [next |-> FALSE,
                threw |-> BadRequestException([text |-> "Feature requirements not met", errors |-> errors])]
          ELSE [next |-> TRUE, threw |-> NoError]

Gate(called, requirements, featureFlags, next, threw) ==
  [called |-> called, requirements |-> requirements, featureFlags |-> featureFlags,
   next |-> next, threw |-> threw]

NoGate == Gate(FALSE, <<>>, NoFeatureFlags, FALSE, NoError)

Started(providers) ==
  /\ tracker = NoTracker
  /\ reply = NoReply
  /\ gate = NoGate
  /\ patches = NoPatches
  /\ captured = NoCapture
  /\ tagsCall = NoTagsCall
  /\ admission = NoAdmission
  /\ running = providers
  /\ db = [b \in running |-> {}]
  /\ cache = [b \in running |-> <<>>]
  /\ last = [b \in running |-> NoLast]
  /\ stale = [b \in running |-> {}]
  /\ deleted = [b \in running |-> {}]
  /\ script = [b \in running |-> NoScript]
  /\ clock = 0
  /\ nextId = 1

\* One process, its repository selected by DATABASE_PROVIDER and constructed
\* with its persistence client.
Init ==
  \E databaseProvider \in DatabaseProvider :
    /\ Started({databaseProvider})
    /\ boot = ListeningWith(databaseProvider)

\* One process per provider, side by side.
InitEq == Started(DatabaseProvider) /\ boot = Unobserved

\* A process about to run bootstrap() in some environment.
InitBoot ==
  /\ Started({})
  /\ \E env \in Envs : boot = BootState("starting", env, <<>>, NoConfig, NoError)

(* --------------------------- HTTP requests ------------------------------ *)

\* Requests that would add a cache entry are taken while the cache holds
\* fewer than MaxCached entries.
CacheHasRoom(req) ==
  \A b \in running :
    \/ CacheKeyMetadata(req.op) = <<>>
    \/ generateCacheKey(CacheKeyMetadata(req.op), req) \in DOMAIN cache[b]
    \/ Cardinality(DOMAIN cache[b]) < MaxCached

PostTodos ==
  \E body \in CreateBodies :
    /\ nextId <= MaxTodos
    /\ Serve(Request("create", "POST", <<"/todos">>, <<>>, <<>>, "", NoArg, body))
    /\ nextId' = IF CreateTodoSchema_parse(body).ok THEN nextId + 1 ELSE nextId

GetTodos ==
  LET req == Request("findAll", "GET", <<"/todos">>, <<>>, <<>>, "", NoArg, <<>>)
  IN /\ CacheHasRoom(req)
     /\ Serve(req)
     /\ UNCHANGED nextId

GetCompleted ==
  \E status \in StatusParams :
    LET req == Request("findCompleted", "GET",
                       <<"/todos/completed">> \o (IF status = Undef THEN <<>> ELSE <<"?status=">> \o status),
                       <<>>, IF status = Undef THEN <<>> ELSE <<"status">> \o status,
                       "", [status |-> status], <<>>)
    IN /\ CacheHasRoom(req)
       /\ Serve(req)
       /\ UNCHANGED nextId

GetByTags ==
  \E tags \in TagsParams :
    LET req == Request("findByTags", "GET",
                       <<"/todos/by-tags">> \o (IF tags = Undef THEN <<>> ELSE <<"?tags=">> \o tags),
                       <<>>, IF tags = Undef THEN <<>> ELSE <<"tags">> \o tags,
                       "", [tags |-> tags], <<>>)
    IN /\ CacheHasRoom(req)
       /\ Serve(req)
       /\ UNCHANGED nextId

GetTodo ==
  \E id \in RequestIds :
    LET req == Request("findOne", "GET", <<"/todos/", id>>, <<"id", id>>, <<>>, id, NoArg, <<>>)
    IN /\ CacheHasRoom(req)
       /\ Serve(req)
       /\ UNCHANGED nextId

PatchTodo ==
  \E id \in RequestIds, body \in UpdateBodies :
    /\ Serve(Request("update", "PATCH", <<"/todos/", id>>, <<"id", id>>, <<>>, id, NoArg, body))
    /\ UNCHANGED nextId

DeleteTodo ==
  \E id \in RequestIds :
    /\ Serve(Request("remove", "DELETE", <<"/todos/", id>>, <<"id", id>>, <<>>, id, NoArg, <<>>))
    /\ UNCHANGED nextId

\* The wall clock read by `new Date()` moves on.
Tick ==
  /\ clock < MaxClock
  /\ clock' = clock + 1
  /\ UNCHANGED <<running, db, cache, last, stale, deleted, script, nextId, boot, tracker, aside>>

\* The time-to-live of a cache entry runs out.
CacheExpire ==
  \E key \in UNION {DOMAIN cache[b] : b \in running} :
    /\ cache' = [p \in running |-> CacheDel(cache[p], {key})]
    /\ stale' = [p \in running |-> stale[p] \ {key}]
    /\ UNCHANGED <<running, db, last, deleted, script, clock, nextId, boot, tracker, aside>>

Next ==
  \/ PostTodos
  \/ GetTodos
  \/ GetCompleted
  \/ GetByTags
  \/ GetTodo
  \/ PatchTodo
  \/ DeleteTodo
  \/ Tick
  \/ CacheExpire

Spec == Init /\ [][Next]_vars

\* The process after bootstrap() in the reference environment with the given
\* DATABASE_PROVIDER and CACHE_PROVIDER.
ListeningWithCache(databaseProvider, cacheProvider) ==
  LET env == Edited(Edited(ReferenceEnv, SetVar("DATABASE_PROVIDER", databaseProvider)),
                    SetVar("CACHE_PROVIDER", cacheProvider))
      created == CHOOSE o \in NestFactory_create(env) : TRUE
  IN [BootState("listening", env, created.heap, created.heap[ConfigRef], NoError)
        EXCEPT !.startEnv = env]

(* --------------------------- concurrent PATCHes ------------------------- *)

\* A row read at the time the statement runs, not at the time the request
\* arrived.
StatementRows_AtArrival(current, atArrival) == atArrival

\* The rows an update statement works on: each repository issues one
\* statement that names only the columns of `data`, and the store reads the
\* target row when it executes the statement.
StatementRows(current, atArrival) == current

ConcurrentBodies ==
  {[completed |-> TRUE],
   [priority |-> High],
   [title |-> <<"b">>, priority |-> Low]}

\* A PATCH arrives and waits for its turn on the event loop.
PatchArrives ==
  \E c \in Clients, id \in RequestIds, body \in ConcurrentBodies :
    /\ patches[c].phase = "idle"
    /\ patches' = [patches EXCEPT ![c] =
                     Patch("arrived",
                           Request("update", "PATCH", <<"/todos/", id>>, <<"id", id>>, <<>>, id, NoArg, body),
                           db)]
    /\ UNCHANGED <<running, db, cache, last, stale, deleted, script, clock, nextId, boot, tracker,
                   reply, admission, tagsCall, captured, gate>>

\* The handler of an arrived PATCH runs: interceptor, validation, the
\* repository's update statement, response.
PatchRuns ==
  \E c \in Clients, b \in running :
    /\ patches[c].phase = "arrived"
    /\ \E o \in ProcServeOn(b, StatementRows(db[b], patches[c].seen[b]), patches[c].req, createId, clock) :
         /\ db' = [db EXCEPT ![b] = o.db]
         /\ cache' = [cache EXCEPT ![b] = o.cache]
         /\ last' = [last EXCEPT ![b] = o.last]
         /\ stale' = [stale EXCEPT ![b] = o.stale]
         /\ deleted' = [deleted EXCEPT ![b] = o.deleted]
         /\ script' = [script EXCEPT ![b] = o.script]
         /\ patches' = [patches EXCEPT ![c] = Patch(IF o.last.status = 200 THEN "updated" ELSE "failed",
                                                    patches[c].req, patches[c].seen)]
    /\ UNCHANGED <<running, clock, nextId, boot, tracker, reply, admission, tagsCall, captured, gate>>

NextPatch ==
  \/ PostTodos
  \/ PatchArrives
  \/ PatchRuns

SpecPatch == Init /\ [][NextPatch]_vars

\* One process with any cache provider.
InitCache ==
  \E databaseProvider \in DatabaseProvider, cacheProvider \in CacheProvider :
    /\ Started({databaseProvider})
    /\ boot = ListeningWithCache(databaseProvider, cacheProvider)

NextCache ==
  \/ PostTodos
  \/ GetTodos
  \/ GetTodo
  \/ PatchTodo
  \/ CacheExpire

SpecCache == InitCache /\ [][NextCache]_vars

(* --------------------------- direct calls ------------------------------- *)

create ==
  \E data \in CreateInputs :
    /\ nextId <= MaxTodos
    /\ Invoke(Call("create", "", NoArg, data))
    /\ nextId' = nextId + 1

findAll ==
  /\ Invoke(Call("findAll", "", NoArg, <<>>))
  /\ UNCHANGED nextId

findById ==
  \E id \in RequestIds :
    /\ Invoke(Call("findById", id, NoArg, <<>>))
    /\ UNCHANGED nextId

update ==
  \E id \in RequestIds, data \in UpdateInputs :
    /\ Invoke(Call("update", id, NoArg, data))
    /\ UNCHANGED nextId

delete ==
  \E id \in RequestIds :
    /\ Invoke(Call("delete", id, NoArg, <<>>))
    /\ UNCHANGED nextId

findByCompleted ==
  \E completed \in BOOLEAN :
    /\ Invoke(Call("findByCompleted", "", [completed |-> completed], <<>>))
    /\ UNCHANGED nextId

findByTags ==
  \E tags \in TagLists :
    /\ Invoke(Call("findByTags", "", [tags |-> tags], <<>>))
    /\ UNCHANGED nextId

NextRepo ==
  \/ create
  \/ findAll
  \/ findById
  \/ update
  \/ delete
  \/ findByCompleted
  \/ findByTags
  \/ Tick

SpecRepo == Init /\ [][NextRepo]_vars

SpecRepoEq == InitEq /\ [][NextRepo]_vars

(* --------------------------- bootstrap ---------------------------------- *)

\* bootstrap(), up to the application being created: a thrown error rejects
\* NestFactory.create and the process never listens.
NestFactoryCreate ==
  /\ boot.phase = "starting"
  /\ \E o \in NestFactory_create(boot.env) :
       IF ~o.ok
       THEN /\ boot' = [boot EXCEPT !.phase = "aborted", !.error = o.error]
            /\ UNCHANGED <<running, db, cache, last, stale, deleted, script, tracker>>
       ELSE /\ boot' = [boot EXCEPT !.phase = "created", !.heap = o.heap,
                                    !.snapshot = o.heap[ConfigRef]]
            /\ tracker' = o.tracker
            /\ running' = {o.repository}
            /\ db' = [b \in running' |-> {}]
            /\ cache' = [b \in running' |-> <<>>]
            /\ last' = [b \in running' |-> NoLast]
            /\ stale' = [b \in running' |-> {}]
            /\ deleted' = [b \in running' |-> {}]
            /\ script' = [b \in running' |-> NoScript]
  /\ UNCHANGED <<clock, nextId, aside>>

\* bootstrap(), from the created application to app.listen().
Listen ==
  /\ boot.phase = "created"
  /\ boot' = [boot EXCEPT !.phase = "listening"]
  /\ UNCHANGED <<running, db, cache, last, stale, deleted, script, clock, nextId, tracker, aside>>

\* A caller takes the object getConfig() returns.
GetConfig ==
  /\ boot.phase = "listening"
  /\ boot.handed = 0
  /\ LET r == FeatureFlagsService_getConfig(boot.heap)
     IN boot' = [boot EXCEPT !.heap = r.heap, !.handed = r.res]
  /\ UNCHANGED <<running, db, cache, last, stale, deleted, script, clock, nextId, tracker, aside>>

ConfigMutations ==
  {[feature |-> "database", value |-> MONGOOSE_MONGODB],
   [feature |-> "cache", value |-> "tampered"]}

\* The caller assigns to a field of the object it was handed.
MutateConfigObject ==
  /\ boot.handed # 0
  /\ \E m \in ConfigMutations :
       /\ boot.heap[boot.handed][m.feature] # m.value
       /\ boot' = [boot EXCEPT !.heap[boot.handed][m.feature] = m.value]
  /\ UNCHANGED <<running, db, cache, last, stale, deleted, script, clock, nextId, tracker, aside>>

RuntimeEdits ==
  {SetVar("DATABASE_PROVIDER", MONGOOSE_MONGODB),
   SetVar("DATABASE_PROVIDER", "bogus"),
   UnsetVar("DATABASE_URL")}

\* The environment of the listening process changes.
SetEnv ==
  /\ boot.phase = "listening"
  /\ boot.env = boot.startEnv
  /\ \E e \in RuntimeEdits :
       /\ Edited(boot.env, e) # boot.env
       /\ boot' = [boot EXCEPT !.env = Edited(boot.env, e)]
  /\ UNCHANGED <<running, db, cache, last, stale, deleted, script, clock, nextId, tracker, aside>>

\* A TodosService call in the application NestFactory.create built: the
\* repository is the instance injected as TODO_REPOSITORY, and every one of
\* its operations starts by dereferencing its client.
InjectedCall(b, req) ==
  IF Repository_client(createRepositoryProvider_dependencies) = "undefined"
  THEN {[db |-> db[b], cache |-> cache[b],
         last |-> Last(req, NoKey, FALSE, 0, NotCalled, Throws(TypeError)),
         stale |-> stale[b], deleted |-> deleted[b], script |-> script[b]]}
  ELSE ProcCall(b, req, createId, clock)

\* The listening process serves a request through TodosService.
ServeRequest ==
  /\ boot.phase = "listening"
  /\ LET Outs(b) == InjectedCall(b, Call("findAll", "", NoArg, <<>>)) IN Apply(Outs)
  /\ UNCHANGED nextId

NextBoot ==
  \/ NestFactoryCreate
  \/ Listen
  \/ GetConfig
  \/ MutateConfigObject
  \/ SetEnv
  \/ ServeRequest

SpecBoot == InitBoot /\ [][NextBoot]_vars

(* --------------------------- exception filter calls -------------------- *)

Exceptions ==
  {ApiError_todoNotFound, ZodValidationPipe_throws({Issue("title", "invalid_type", "Required")}),
   PlainNotFoundError,
   PrismaRecordNotFound, ValidationError, ThrownString, ServiceUnavailableException}

\* An exception reaches the filter of the listening application.
Catch ==
  /\ boot.phase = "listening"
  /\ \E exception \in Exceptions, userId \in {"", "u1"}, url \in {<<"/todos">>, <<"/todos/1">>},
        userBackend \in BackendOutcomes, captureBackend \in BackendOutcomes :
       reply' = UnifiedExceptionFilter_catch(exception, [url |-> url], userId, tracker.active,
                                             userBackend, captureBackend)
  /\ UNCHANGED <<running, db, cache, last, stale, deleted, script, clock, nextId, boot, tracker, admission, tagsCall, captured, patches, gate>>

NextFilter ==
  \/ NestFactoryCreate
  \/ Listen
  \/ Catch

SpecFilter == InitBoot /\ [][NextFilter]_vars

(* --------------------------- guarded requests -------------------------- *)

\* The credentials a request can carry: none, an x-api-key (the configured
\* one or another), an authorization header (a Bearer token signed with the
\* configured secret, a forged one, an empty one, or another scheme).
RequestHeaders ==
  LET keys == {[h \in {"x-api-key"} |-> k] : k \in {"api-key", "wrong"}}
      auths == {[h \in {"authorization"} |-> x] :
                  x \in {Authorization("Bearer", "t1", "secret"), Authorization("Bearer", "t2", "forged"),
                         Authorization("Bearer", "", ""), Authorization("Basic", "t3", "")}}
  IN {<<>>} \cup keys \cup auths
     \cup {[h \in {"x-api-key", "authorization"} |-> IF h = "x-api-key" THEN k["x-api-key"] ELSE x["authorization"]] :
             k \in keys, x \in auths}

\* A request reaches the guard of the listening application.
CanActivate ==
  /\ boot.phase = "listening"
  /\ \E isPublic \in BOOLEAN, headers \in RequestHeaders :
       admission' = Admission(isPublic, headers, CompositeAuthGuard_canActivate(boot.env, isPublic, headers))
  /\ UNCHANGED <<running, db, cache, last, stale, deleted, script, clock, nextId, boot, tracker, reply, tagsCall, captured, patches, gate>>

NextAuth ==
  \/ NestFactoryCreate
  \/ Listen
  \/ CanActivate

SpecAuth == InitBoot /\ [][NextAuth]_vars

(* --------------------------- tags parameter ---------------------------- *)

RECURSIVE StringsUpTo(_)
StringsUpTo(n) ==
  IF n = 0 THEN {<<>>}
  ELSE LET shorter == StringsUpTo(n - 1)
       IN shorter \cup {Append(s, c) : s \in shorter, c \in {"x", ",", " "}}

\* The tags parameter: absent, or a string of tag characters, commas and spaces.
TagsQueries == {Undef} \cup StringsUpTo(MaxTagsLen)

\* No process under observation: a handler or helper is called on its own.
InitDetached ==
  /\ Started({})
  /\ boot = Unobserved

\* TodosController.findByTags called with a tags parameter.
FindByTagsHandler ==
  /\ \E tags \in TagsQueries :
       tagsCall' = TagsCall(TRUE, tags, Controller_findByTags_tagArray(tags))
  /\ UNCHANGED <<running, db, cache, last, stale, deleted, script, clock, nextId, boot, tracker,
                 reply, admission, captured, patches, gate>>

NextTags == FindByTagsHandler

SpecTags == InitDetached /\ [][NextTags]_vars

(* --------------------------- captured requests ------------------------- *)

BodyKeys == {<<"p", "a", "s", "s", "w", "o", "r", "d">>, <<"a", "p", "i", "K", "e", "y">>, <<"T", "o", "k", "e", "n">>, <<"t", "i", "t", "l", "e">>}

\* Objects with any of the keys, each holding a string.
FlatObjects == {Object([key \in keys |-> Text("v")]) : keys \in SUBSET BodyKeys}

\* Request bodies: none, null, a flat object, or one nesting another under "meta".
RequestBodies ==
  {Text(""), JsonNull} \cup FlatObjects
  \cup {Object([key \in DOMAIN outer.fields \cup {<<"m", "e", "t", "a">>} |->
                  IF key = <<"m", "e", "t", "a">> THEN inner ELSE outer.fields[key]]) :
          outer \in FlatObjects, inner \in FlatObjects \cup {JsonNull}}

CapturedHeaders ==
  {[h \in names |-> "v"] : names \in SUBSET {"authorization", "x-api-key", "content-type", "cookie"}}

\* captureHttpException is called for a request (one call is observed).
CaptureHttpException ==
  /\ ~captured.called
  /\ \E body \in RequestBodies, headers \in CapturedHeaders :
       LET request == [method |-> "POST", url |-> <<"/todos">>, body |-> body, headers |-> headers]
       IN captured' = Capture(TRUE, request, captureHttpException_metadata(request))
  /\ UNCHANGED <<running, db, cache, last, stale, deleted, script, clock, nextId, boot, tracker,
                 reply, admission, tagsCall, patches, gate>>

NextCapture == CaptureHttpException

SpecCapture == InitDetached /\ [][NextCapture]_vars

(* --------------------------- route requirements ------------------------ *)

Requirements ==
  {FeatureRequirement(feature, allowedProviders, errorMessage) :
     feature \in {"database", "cache", "search"},
     allowedProviders \in {<<>>, <<"redis">>, <<"memory", "none">>, <<PRISMA_POSTGRESQL>>},
     errorMessage \in {"", "Not available"}}

RequirementLists ==
  {<<>>} \cup {<<r>> : r \in Requirements} \cup {<<r, q>> : r, q \in Requirements}

\* What FeatureValidationMiddleware.use puts on the request (the validated
\* configuration of a started application), or nothing when it did not run.
RequestFeatureFlags ==
  {NoFeatureFlags} \cup
  {o.heap[ConfigRef] : o \in {c \in UNION {NestFactory_create(env) : env \in EnvsWithin(1)} : c.ok}}

\* A request reaches a route guarded by forFeatures(requirements).
ForFeaturesMiddleware ==
  /\ ~gate.called
  /\ \E requirements \in RequirementLists, featureFlags \in RequestFeatureFlags :
       LET o == FeatureValidationMiddleware_forFeatures(requirements, featureFlags)
       IN gate' = Gate(TRUE, requirements, featureFlags, o.next, o.threw)
  /\ UNCHANGED <<running, db, cache, last, stale, deleted, script, clock, nextId, boot, tracker,
                 reply, admission, tagsCall, captured, patches>>

NextGate == ForFeaturesMiddleware

SpecGate == InitDetached /\ [][NextGate]_vars

(* --------------------------- error tracking calls ----------------------- *)

Tracked(call) ==
  /\ boot.phase \in {"created", "listening"}
  /\ tracker' = [tracker EXCEPT !.last = call]
  /\ UNCHANGED <<running, db, cache, last, stale, deleted, script, clock, nextId, boot, aside>>

CaptureException == \E backend \in BackendOutcomes : Tracked(captureException(tracker.active, backend))

CaptureMessage == \E backend \in BackendOutcomes : Tracked(captureMessage(tracker.active, backend))

SetUser == \E backend \in BackendOutcomes : Tracked(setUser(tracker.active, backend))

AddBreadcrumb == \E backend \in BackendOutcomes : Tracked(addBreadcrumb(tracker.active, backend))

Flush == \E backend \in BackendOutcomes : Tracked(flush(tracker.active, backend))

NextTrack ==
  \/ NestFactoryCreate
  \/ Listen
  \/ CaptureException
  \/ CaptureMessage
  \/ SetUser
  \/ AddBreadcrumb
  \/ Flush

SpecTrack == InitBoot /\ [][NextTrack]_vars

(* ======================================================================= *)
(* Claims                                                                  *)
(* ======================================================================= *)

\* C1: in the sequence POST /todos, GET /todos/{id}, PATCH /todos/{id},
\* DELETE /todos/{id}, GET /todos/{id}, the DELETE answers 200 with the
\* record it deleted and the final GET answers 404.
C1_DeleteThenNotFound ==
  \A b \in running :
    /\ script[b].step = 4 =>
         /\ last[b].status = 200
         /\ last[b].body.kind = "value"
         /\ last[b].body.value.id = script[b].id
    /\ script[b].step = 5 => last[b].status = 404

\* C2: no GET is served from a cache entry stored before a write (POST,
\* PATCH, DELETE) that has completed since.
C2_NoResponseFromBeforeAWrite ==
  \A b \in running : last[b].hit => last[b].key \notin stale[b]

\* The step is a call (or request) of `op` answered by process b.
Answered(b, op) == last'[b] # last[b] /\ last'[b].req.op = op

NewestFirst(list) ==
  \A i, j \in 1..Len(list) : list[i].createdAt > list[j].createdAt => i < j

\* C3: findAll, findByCompleted and findByTags return their records newest
\* created first, in each repository implementation.
C3_ListsNewestFirst ==
  \A b \in running :
    (last[b].req.op \in {"findAll", "findByCompleted", "findByTags"} /\ last[b].repo.kind = "list")
      => NewestFirst(last[b].repo.value)

\* C4: findById of an id no stored record has returns null, does not throw,
\* and leaves the store unchanged, in each repository implementation.
C4_FindByIdAbsentReturnsNull ==
  [][\A b \in running :
       (Answered(b, "findById") /\ last'[b].req.id \notin IdsOf(b, db[b]))
         => (last'[b].repo = ReturnsNull /\ db'[b] = db[b])]_vars

C4_Witness ==
  \E b \in running :
    /\ last[b].req.op = "findById"
    /\ last[b].req.id \in deleted[b]
    /\ last[b].repo = ReturnsNull
    /\ db[b] # {}

\* C5: delete of an id no stored record has fails with a not-found condition;
\* it never completes normally.
C5_DeleteAbsentFails ==
  [][\A b \in running :
       (Answered(b, "delete") /\ last'[b].req.id \notin IdsOf(b, db[b]))
         => last'[b].repo.kind = "throw"]_vars

\* C6: PATCH /todos/:id and DELETE /todos/:id of an id no stored record has
\* answer 404, whichever repository is selected.
C6_WriteAbsentAnswers404 ==
  [][\A b \in running :
       ( /\ Answered(b, "update") \/ Answered(b, "remove")
         /\ last'[b].req.id \notin IdsOf(b, db[b])
         /\ last'[b].req.op = "update" => UpdateTodoSchema_parse(last'[b].req.body).ok )
         => last'[b].status = 404]_vars

\* The stored record with the given id, and the Todo a repository makes of it.
Stored(b, rows, id) ==
  CHOOSE r \in rows : (IF b = MONGOOSE_MONGODB THEN r.cuid ELSE r.id) = id

Entity(b, row) == IF b = MONGOOSE_MONGODB THEN Mongoose_mapDocumentToEntity(row) ELSE row

UpdatesExisting(b) ==
  Answered(b, "update") /\ last'[b].req.id \in IdsOf(b, db[b])

C8_UpdateChangesOnlyPatchedFields ==
  [][\A b \in running :
       UpdatesExisting(b) =>
         LET id == last'[b].req.id
             patch == last'[b].req.body
             old == Stored(b, db[b], id)
             new == Stored(b, db'[b], id)
         IN /\ id \in IdsOf(b, db'[b])
            /\ \A f \in DOMAIN old \ (DOMAIN patch \cup {"updatedAt"}) : new[f] = old[f]
            /\ \A f \in DOMAIN Entity(b, old) \ (DOMAIN patch \cup {"updatedAt"}) :
                 Entity(b, new)[f] = Entity(b, old)[f]
            /\ last'[b].repo = Value(Entity(b, new))
            /\ db'[b] \ {new} = db[b] \ {old}]_vars

C8_Witness ==
  \E b \in running :
    /\ last[b].req.op = "update"
    /\ DOMAIN last[b].req.body = {"tags", "metadata"}
    /\ last[b].repo.kind = "value"
    /\ last[b].repo.value.tags = << <<"y">> >>
    /\ last[b].repo.value.completed = TRUE
    /\ last[b].repo.value.updatedAt > last[b].repo.value.createdAt
    /\ Cardinality(db[b]) = 2

\* C9: for a create input that omits completed, priority and tags, the todo
\* create returns has completed = false, priority = 'medium' and tags = [],
\* whichever repository is selected.
C9_CreateDefaults ==
  \A b \in running :
    ( /\ last[b].req.op = "create"
      /\ DOMAIN last[b].req.body \cap {"completed", "priority", "tags"} = {}
      /\ last[b].repo.kind = "value" )
      => /\ last[b].repo.value.completed = FALSE
         /\ last[b].repo.value.priority = Medium
         /\ last[b].repo.value.tags = <<>>

C9_Witness ==
  \E b \in running :
    /\ last[b].req.op = "create"
    /\ last[b].req.body = [title |-> <<"a">>]
    /\ last[b].repo.kind = "value"
    /\ last[b].repo.value.priority = Medium
    /\ last[b].repo.value.id \in IdsOf(b, db[b])

NullableFields == {"description", "priority", "dueDate", "metadata"}

\* Same fields with equivalent values, the generated id and the timestamps
\* apart; a null field and a missing one count as the same.
Equivalent(t, u) ==
  \A f \in {"title", "description", "completed", "priority", "dueDate", "tags", "metadata"} :
    IF f \in NullableFields
    THEN (Absent(t[f]) /\ Absent(u[f])) \/ t[f] = u[f]
    ELSE t[f] = u[f]

\* C10: the same create, update, findById, delete with the same inputs gives,
\* on the Prisma, Drizzle and Mongoose repositories, results with the same
\* fields and equivalent values at every step.
C10_SameResultsOnEveryBackend ==
  \A b1, b2 \in running :
    ( /\ last[b1].req.op \in {"create", "update", "findById", "delete"}
      /\ last[b1].repo.kind = "value"
      /\ last[b2].repo.kind = "value" )
      => Equivalent(last[b1].repo.value, last[b2].repo.value)

\* C11: create called with a metadata map returns a todo whose metadata is
\* the given map, in each repository implementation (the half of the claim
\* about create; the following findById reads what create stored).
C11_CreateReturnsMetadata ==
  \A b \in running :
    ( /\ last[b].req.op = "create"
      /\ "metadata" \in DOMAIN last[b].req.body
      /\ last[b].repo.kind = "value" )
      => last[b].repo.value.metadata = last[b].req.body.metadata

\* The stored records that share at least one tag with the given list.
SharesATag(rows, tags) ==
  {r \in rows : \E i \in 1..Len(tags), j \in 1..Len(r.tags) : r.tags[j] = tags[i]}

\* C12: findByTags(tags) returns exactly the stored records whose tag list
\* shares at least one tag with the given list, each once.
C12_FindByTagsAnyMatch ==
  [][\A b \in running :
       Answered(b, "findByTags") =>
         LET tags == last'[b].req.arg.tags
             list == last'[b].repo.value
         IN /\ last'[b].repo.kind = "list"
            /\ {list[i].id : i \in 1..Len(list)} = IdsOf(b, SharesATag(db[b], tags))
            /\ Len(list) = Cardinality(SharesATag(db[b], tags))]_vars

C12_Witness ==
  \E b \in running :
    /\ last[b].req.op = "findByTags"
    /\ last[b].req.arg.tags = << <<"x">>, <<"z">> >>
    /\ last[b].repo.kind = "list"
    /\ Len(last[b].repo.value) = 1
    /\ last[b].repo.value[1].tags = << <<"x">> >>
    /\ Cardinality(db[b]) = 2

\* C13: findByTags called with an empty tag list returns an empty list, in
\* each repository implementation, whatever records are stored.
C13_FindByTagsEmptyList ==
  \A b \in running :
    (last[b].req.op = "findByTags" /\ last[b].req.arg.tags = <<>>)
      => last[b].repo = List(<<>>)

C13_Witness ==
  \E b \in running :
    /\ last[b].req.op = "findByTags"
    /\ last[b].req.arg.tags = <<>>
    /\ last[b].repo = List(<<>>)
    /\ \E r \in db[b] : r.tags # <<>>

\* What the validation pipe of the handler makes of the body of the request.
Parsed(req) ==
  IF req.op = "create" THEN CreateTodoSchema_parse(req.body) ELSE UpdateTodoSchema_parse(req.body)

\* C20: a POST /todos or PATCH /todos/:id whose body violates the schema is
\* answered 400, the response carries one {field, message, code} entry per
\* violated rule, the repository is not called and the store is unchanged.
C20_InvalidBodyAnswers400WithIssues ==
  [][\A b \in running :
       ( /\ Answered(b, "create") \/ Answered(b, "update")
         /\ last'[b].req.method \in {"POST", "PATCH"}
         /\ ~Parsed(last'[b].req).ok )
         => /\ last'[b].status = 400
            /\ last'[b].repo = NotCalled
            /\ db'[b] = db[b]
            /\ last'[b].body.kind = "error"
            /\ "errors" \in DOMAIN last'[b].body.value
            /\ last'[b].body.value.errors =
                 ZodValidationPipe_formattedErrors(Parsed(last'[b].req).issues)]_vars

\* The provider options whose value in the environment is outside their
\* enumeration.
InvalidOptions(env) ==
  {ProviderOptions[i].envVar : i \in
     {j \in 1..Len(ProviderOptions) :
        ConfigService_get(env, ProviderOptions[j].envVar, ProviderOptions[j].dflt)
          \notin ProviderOptions[j].valid}}

\* C14: when several provider options hold values outside their
\* enumerations, constructing FeatureFlagsService fails and the reported
\* error names every invalid option.
C14_ErrorNamesEveryInvalidOption ==
  (boot.phase = "aborted" /\ Cardinality(InvalidOptions(boot.startEnv)) >= 2)
    => /\ boot.error.kind = "invalid-provider"
       /\ boot.error.envVars = InvalidOptions(boot.startEnv)

\* The selected database backend lacks its connection string.
LacksConnectionString(env) ==
  LET database == ConfigService_get(env, "DATABASE_PROVIDER", PRISMA_POSTGRESQL)
  IN \/ database \in {PRISMA_POSTGRESQL, DRIZZLE_POSTGRESQL} /\ Missing(env, "DATABASE_URL")
     \/ database = MONGOOSE_MONGODB /\ Missing(env, "MONGODB_URL")

\* C15: if any provider option is invalid, or the selected database backend
\* lacks its connection string, no FeatureFlagsService instance exists and
\* the application is never created or listening; a listening application
\* has a value of its enumeration for every feature and the connection
\* string of its database backend.
C15_StartupAllOrNothing ==
  /\ (InvalidOptions(boot.startEnv) # {} \/ LacksConnectionString(boot.startEnv))
       => /\ boot.phase \in {"starting", "aborted"}
          /\ boot.heap = <<>>
          /\ running = {}
  /\ boot.phase = "listening"
       => /\ ConfigRef \in DOMAIN boot.heap
          /\ \A i \in 1..Len(ProviderOptions) :
               FeatureFlagsService_get(boot.heap, ProviderOptions[i].feature)
                 \in ProviderOptions[i].valid
          /\ InvalidOptions(boot.startEnv) = {}
          /\ ~LacksConnectionString(boot.startEnv)

C15_Witness ==
  /\ boot.phase = "aborted"
  /\ InvalidOptions(boot.startEnv) = {}
  /\ LacksConnectionString(boot.startEnv)
  /\ "MONGODB_URL" \notin DOMAIN boot.startEnv
  /\ boot.error.kind = "validation-failed"
  /\ boot.heap = <<>>

\* The configured value of a feature in an environment.
Selected(env, feature) ==
  LET o == ProviderOptions[CHOOSE i \in 1..Len(ProviderOptions) : ProviderOptions[i].feature = feature]
  IN ConfigService_get(env, o.envVar, o.dflt)

\* The error-tracking backend is selected without its credential.
LacksCredential(env) ==
  /\ Selected(env, "errorTracking") \in {"bugsnag", "sentry", "posthog"}
  /\ Missing(env, Credential(Selected(env, "errorTracking")).envVar)

LacksRedisHost(env) == Selected(env, "cache") = "redis" /\ Missing(env, "REDIS_HOST")

\* The required items validateConfiguration finds missing, as its messages.
MissingItems(env) ==
  (IF Selected(env, "database") = MONGOOSE_MONGODB /\ Missing(env, "MONGODB_URL")
   THEN {"MONGODB_URL is required when using mongoose-mongodb database provider"} ELSE {})
  \cup (IF Selected(env, "database") \in {PRISMA_POSTGRESQL, DRIZZLE_POSTGRESQL} /\ Missing(env, "DATABASE_URL")
        THEN {"DATABASE_URL is required when using PostgreSQL database providers"} ELSE {})
  \cup (IF LacksRedisHost(env)
        THEN {"REDIS_HOST is required when using redis cache provider"} ELSE {})

C16_WitnessCredential ==
  /\ boot.phase = "listening"
  /\ LacksCredential(boot.startEnv)
  /\ tracker.active = "sentry"
  /\ ~tracker.initialized

C19_TrackingNeverThrows ==
  /\ tracker.last.outcome = "returned"
  /\ (tracker.last.called # "none" /\ tracker.last.backend = "throws") => tracker.last.logged
  /\ (tracker.last.method # "none" /\ tracker.active = "none")
       => tracker.last.called = "none" /\ ~tracker.last.logged

C19_Witness ==
  /\ tracker.active = "sentry"
  /\ tracker.last.method = "flush"
  /\ tracker.last.called = "flush"
  /\ tracker.last.backend = "throws"
  /\ tracker.last.outcome = "returned"
  /\ tracker.last.logged

C19_WitnessNoBackend ==
  /\ tracker.active = "none"
  /\ tracker.last.method = "captureMessage"
  /\ tracker.last.called = "none"
  /\ tracker.last.outcome = "returned"

\* C21: for every exception that reaches UnifiedExceptionFilter exactly one
\* response is sent, with the exception's own status when it is an
\* HttpException (404 for ApiError.todoNotFound, 400 for validation) and 500
\* otherwise, also when the error-tracking backend fails.
C21_OneResponsePerException ==
  reply # NoReply
    => /\ reply.sent = 1
       /\ ~reply.threw
       /\ reply.status = (IF reply.exception.isHttp THEN reply.exception.status ELSE 500)
       /\ reply.payload.statusCode = reply.status
       /\ reply.exception = ApiError_todoNotFound => reply.status = 404
       /\ reply.exception.name = "BadRequestException" => reply.status = 400

C21_Witness ==
  /\ reply.exception = PrismaRecordNotFound
  /\ reply.sent = 1
  /\ reply.status = 500
  /\ \E i \in DOMAIN reply.calls :
       /\ reply.calls[i].method = "captureHttpException"
       /\ reply.calls[i].backend = "throws"
       /\ reply.calls[i].logged

\* C22: in every reachable state of the store no two records share an id,
\* no stored record has the id of a record deleted earlier, and every
\* record has updatedAt >= createdAt.
C22_IdsUniqueNeverReused ==
  \A b \in running :
    /\ Cardinality(IdsOf(b, db[b])) = Cardinality(db[b])
    /\ IdsOf(b, db[b]) \cap deleted[b] = {}
    /\ \A r \in db[b] : r.updatedAt >= r.createdAt

C22_Witness ==
  \E b \in running :
    /\ deleted[b] # {}
    /\ \E r \in db[b] : r.updatedAt > r.createdAt

\* The credentials of a request.
OnlyApiKey(headers) == DOMAIN headers = {"x-api-key"} /\ headers["x-api-key"] # ""

OnlyBearer(headers) == DOMAIN headers = {"authorization"} /\ HasBearerToken(headers)

\* C23: the configured auth mode governs admission to the todo endpoints:
\* with none a request without any credential is admitted, with
\* bearer-only a request carrying only an x-api-key is rejected, with
\* api-key-only a request carrying only a Bearer token is rejected.
C23_AuthModeGovernsAdmission ==
  (boot.phase = "listening" /\ admission # NoAdmission /\ ~admission.isPublic)
    => LET mode == FeatureFlagsService_get(boot.heap, "auth")
       IN /\ (mode = "none" /\ admission.headers = <<>>) => admission.result.admitted
          /\ (mode = "bearer-only" /\ OnlyApiKey(admission.headers)) => ~admission.result.admitted
          /\ (mode = "api-key-only" /\ OnlyBearer(admission.headers)) => ~admission.result.admitted

\* The request carries an x-api-key equal to the configured API_KEY.
ApiKeyMatches(env, headers) ==
  HasApiKeyHeader(headers) /\ "API_KEY" \in DOMAIN env /\ headers["x-api-key"] = env["API_KEY"]

\* The request carries a Bearer token that verifies against JWT_SECRET.
BearerVerifies(env, headers) ==
  /\ HasBearerToken(headers)
  /\ headers["authorization"].token.text # ""
  /\ "JWT_SECRET" \in DOMAIN env
  /\ headers["authorization"].token.signedWith = env["JWT_SECRET"]

\* C26: a request to a non-public route is admitted by CompositeAuthGuard
\* only if it carries an x-api-key equal to API_KEY or a Bearer token that
\* verifies against JWT_SECRET; a request with an unverifiable Bearer token
\* or with no credential is rejected with Unauthorized.
C26_AdmittedOnlyWithValidCredential ==
  (boot.phase = "listening" /\ admission # NoAdmission /\ ~admission.isPublic)
    => /\ admission.result.admitted
            => ApiKeyMatches(boot.env, admission.headers) \/ BearerVerifies(boot.env, admission.headers)
       /\ (admission.headers = <<>>
           \/ (OnlyBearer(admission.headers) /\ ~BearerVerifies(boot.env, admission.headers)))
            => /\ ~admission.result.admitted
               /\ admission.result.error.name = "UnauthorizedException"

\* The positions of the commas of a string, with 0 before and Len + 1 after.
Cuts(s) == {0, Len(s) + 1} \cup {i \in 1..Len(s) : s[i] = ","}

\* The i-th comma-separated segment of s without its surrounding spaces.
TrimmedSegment(s, i) ==
  LET from == CHOOSE c \in Cuts(s) : Cardinality({d \in Cuts(s) : d < c}) = i - 1
      to == CHOOSE c \in Cuts(s) : Cardinality({d \in Cuts(s) : d < c}) = i
      kept == {k \in (from + 1)..(to - 1) : s[k] # " "}
  IN IF kept = {} THEN <<>>
     ELSE SubSeq(s, CHOOSE k \in kept : \A l \in kept : k <= l,
                    CHOOSE k \in kept : \A l \in kept : k >= l)

\* C24: GET /todos/by-tags passes to the service exactly the comma-separated
\* segments of the tags parameter, each trimmed of surrounding white space,
\* in their order, and an empty list when the parameter is empty or absent.
C24_TagsSplitAndTrimmed ==
  tagsCall.called
    => IF tagsCall.tags = Undef \/ tagsCall.tags = <<>> THEN tagsCall.tagArray = <<>>
       ELSE /\ Len(tagsCall.tagArray) = Cardinality(Cuts(tagsCall.tags)) - 1
            /\ \A i \in 1..Len(tagsCall.tagArray) :
                 tagsCall.tagArray[i] = TrimmedSegment(tagsCall.tags, i)

C24_Witness ==
  /\ tagsCall.called
  /\ tagsCall.tags = <<" ", "x", " ", ",">>
  /\ tagsCall.tagArray = << <<"x">>, <<>> >>

\* C25: the repository instance injected as TODO_REPOSITORY holds the
\* persistence client of its backend: no repository operation of the
\* application runs against an undefined client.
C25_RepositoryHoldsItsClient ==
  boot.phase = "listening"
    => /\ Repository_client(createRepositoryProvider_dependencies) # "undefined"
       /\ \A b \in running :
            last[b].req.op # "none" => last[b].repo # Throws(TypeError)

\* The name contains password, token, secret, apiKey or authorization,
\* compared case-insensitively.
NamesASecret(key) ==
  \E sensitive \in sensitiveKeys : StringIncludes(ToLowerCase(key), ToLowerCase(sensitive))

\* Every value under a key naming a secret is '[REDACTED]', at any depth.
RECURSIVE SecretsRedacted(_)
SecretsRedacted(value) ==
  value.type = "object"
    => \A key \in DOMAIN value.fields :
         IF NamesASecret(key) THEN value.fields[key] = REDACTED
         ELSE SecretsRedacted(value.fields[key])

\* C27: in the metadata captureHttpException hands to the error-tracking
\* backend, every body value under a key whose name contains password,
\* token, secret, apiKey or authorization (case-insensitively, at any
\* depth) is '[REDACTED]', and only allow-listed headers are present.
C27_CapturedMetadataIsSanitized ==
  captured.called
    => /\ SecretsRedacted(captured.metadata.body)
       /\ DOMAIN captured.metadata.headers \subseteq allowedHeaders
       /\ DOMAIN captured.metadata.headers \cap {"authorization", "x-api-key"} = {}

\* C28: when the cache provider is none, every GET invokes its handler and
\* no response is served from a stored cache entry.
C28_NoneDisablesCaching ==
  \A b \in running :
    (boot.phase = "listening" /\ boot.snapshot.cache = "none" /\ last[b].req.method = "GET")
      => ~last[b].hit /\ last[b].repo # NotCalled

\* The records of process b, among rows, that PATCH /todos/{id} addresses.
Addressed(b, rows, id) ==
  IF b = MONGOOSE_MONGODB THEN WhereCuid(rows, id) ELSE WhereId(rows, id)

\* Both PATCHes were answered 200, on one record that was stored when each of
\* them arrived, and they set disjoint fields.
DisjointPatchesDone(b) ==
  /\ \A c \in Clients : patches[c].phase = "updated"
  /\ \A c, d \in Clients :
       /\ patches[c].req.id = patches[d].req.id
       /\ c # d => DOMAIN patches[c].req.body \cap DOMAIN patches[d].req.body = {}
  /\ \A c \in Clients : Addressed(b, patches[c].seen[b], patches[c].req.id) # {}

\* C29: two concurrent PATCHes on the same existing record that set disjoint
\* fields both take effect: after both have completed, in any interleaving,
\* the stored record holds the value each request wrote for every field it set.
C29_DisjointPatchesBothTakeEffect ==
  \A b \in running :
    DisjointPatchesDone(b) =>
      /\ Addressed(b, db[b], patches["first"].req.id) # {}
      /\ \A r \in Addressed(b, db[b], patches["first"].req.id), c \in Clients :
           \A f \in DOMAIN patches[c].req.body : r[f] = patches[c].req.body[f]

\* Both PATCHes had arrived before either ran, and both have completed.
C29_Witness ==
  \E b \in running :
    /\ DisjointPatchesDone(b)
    /\ patches["first"].seen = patches["second"].seen

\* The requirements of the call whose feature's current provider is not
\* among the allowed ones, in the order they are listed.
Unmet(requirements, featureFlags) ==
  {i \in 1..Len(requirements) :
     ~ (/\ requirements[i].feature \in DOMAIN featureFlags
        /\ featureFlags[requirements[i].feature] \in
             {requirements[i].allowedProviders[k] : k \in 1..Len(requirements[i].allowedProviders)})}

\* C30: a middleware built by forFeatures calls next() exactly when the
\* request carries a featureFlags context and every listed requirement is
\* met; otherwise it throws one BadRequest and does not call next(), and the
\* message of that BadRequest has an entry for every unmet requirement.
C30_ForFeaturesAdmitsIffAllMet ==
  gate.called =>
    LET unmet == Unmet(gate.requirements, gate.featureFlags)
        context == gate.featureFlags # NoFeatureFlags
    IN /\ gate.next <=> (context /\ unmet = {})
       /\ gate.next <=> gate.threw = NoError
       /\ ~gate.next => gate.threw.name = "BadRequestException" /\ gate.threw.status = 400
       /\ (context /\ unmet # {}) =>
            /\ Len(gate.threw.code.errors) = Cardinality(unmet)
            /\ \A i \in unmet :
                 \E k \in 1..Len(gate.threw.code.errors) :
                   gate.threw.code.errors[k] = forFeatures_errorMsg(gate.requirements[i], gate.featureFlags)

\* Two listed requirements are unmet and the call was rejected.
C30_Witness ==
  /\ gate.called
  /\ gate.featureFlags # NoFeatureFlags
  /\ Cardinality(Unmet(gate.requirements, gate.featureFlags)) = 2
  /\ gate.requirements[1] # gate.requirements[2]
  /\ ~gate.next

\* A call without featureFlags context is rejected.
C30_WitnessNoContext ==
  /\ gate.called
  /\ gate.featureFlags = NoFeatureFlags
  /\ ~gate.next

\* A call whose requirements are all met goes on to next().
C30_WitnessAdmitted ==
  /\ gate.called
  /\ Len(gate.requirements) = 2
  /\ gate.next

====
